---------------------------- MODULE Spec2Model ----------------------------
(***************************************************************************)
(* Academic Research Assistant: document layout reconstruction (parsePdf)  *)
(* and citation linkage (MessageBubble.parsedContent).                     *)
(*                                                                         *)
(* Text is modelled as a sequence of one-character strings, so that        *)
(* trimming, prefix/suffix tests and slicing are computed, not assumed.    *)
(* Fractions of a height (0.5, 0.6, 1.6, 0.2) are compared after scaling   *)
(* both sides by 10 (or 2), which is exact on the integer coordinates used.*)
(***************************************************************************)
EXTENDS Integers, Sequences, FiniteSets, TLC

(***************************************************************************)
(* Bounds of the model.                                                    *)
(***************************************************************************)
\* runs (text items) on one page
MaxRuns == 2
\* documents in the library
MaxDocuments == 2
\* characters of a placeholder's random suffix
MaxSuffixLen == 1
\* characters in one chunk of the stream
MaxChunk == 2

(***************************************************************************)
(* Program constants.                                                      *)
(***************************************************************************)
\* item.height || 10
DefaultHeight == 10
\* let lastY = -1; let lastX = -1;  (the "no previous run" sentinel)
NoLast == -1

(***************************************************************************)
(* Characters and strings.                                                 *)
(***************************************************************************)
\* String.prototype.trim strips these (the model's alphabet of white space)
WhiteSpace == {" ", "\t", "\n"}

Abs(n) == IF n < 0 THEN -n ELSE n

\* s.endsWith(c), s.startsWith(c) for a one-character c
EndsWith(s, c) == Len(s) > 0 /\ s[Len(s)] = c
StartsWith(s, c) == Len(s) > 0 /\ s[1] = c

RECURSIVE TrimStart(_)
TrimStart(s) ==
    IF Len(s) > 0 /\ s[1] \in WhiteSpace THEN TrimStart(Tail(s)) ELSE s

RECURSIVE TrimEnd(_)
TrimEnd(s) ==
    IF Len(s) > 0 /\ s[Len(s)] \in WhiteSpace
    THEN TrimEnd(SubSeq(s, 1, Len(s) - 1))
    ELSE s

\* String.prototype.trim
Trim(s) == TrimEnd(TrimStart(s))

\* s.slice(0, -1)
SliceDropLast(s) == IF Len(s) = 0 THEN s ELSE SubSeq(s, 1, Len(s) - 1)

(***************************************************************************)
(* parsePdf: the inputs supplied by the PDF library.                       *)
(***************************************************************************)
Strs ==
    { <<"a">>,
      <<" ", "b", "-">>,
      <<"-", " ">> }
Xs == {-5, 1, 7}
Ys == {-1, 1, 5, 21}
Heights == {0, 4}
Widths == {4}

\* one entry of textContent.items: str, transform[4], transform[5], height, width
TextItems == [str : Strs, x : Xs, y : Ys, height : Heights, width : Widths]

PagesOf(n) == UNION { [1..k -> TextItems] : k \in 0..n }

(***************************************************************************)
(* parsePdf: mapping, sorting and walking the items of one page.           *)
(***************************************************************************)
\* textContent.items.map(...): height falls back to 10 when it is 0
MapItem(item) ==
    [str |-> item.str, x |-> item.x, y |-> item.y,
     height |-> IF item.height = 0 THEN DefaultHeight ELSE item.height,
     width |-> item.width]

MapItems(its) == [i \in 1..Len(its) |-> MapItem(its[i])]

\* Compare with the lines taken bottom-up: a.y - b.y in place of b.y - a.y
CompareAscending(a, b) ==
    IF 2 * Abs(a.y - b.y) > a.height THEN a.y - b.y ELSE a.x - b.x

\* the comparator handed to items.sort: |a.y - b.y| > a.height * 0.5
Compare(a, b) ==
    IF 2 * Abs(a.y - b.y) > a.height THEN b.y - a.y ELSE a.x - b.x

\* Insert pivot at (0-based) position left of the sorted prefix s.
InsertAt(s, left, pivot) ==
    SubSeq(s, 1, left) \o <<pivot>> \o SubSeq(s, left + 1, Len(s))

Reverse(s) == [i \in 1..Len(s) |-> s[Len(s) + 1 - i]]

(* Array.prototype.sort is engine-defined when the comparator is not a     *)
(* consistent order.  Two engines are modelled for short arrays.           *)
(* "timsort": V8 (count the leading run, reverse it when strictly          *)
(* descending, then binary insertion of the remaining elements).           *)
RECURSIVE RunLength(_, _, _)
RunLength(s, idx, desc) ==
    \* idx: 1-based index of the next element to compare with its predecessor
    IF idx > Len(s) THEN idx - 1
    ELSE LET order == Compare(s[idx], s[idx - 1])
         IN  IF (desc /\ order >= 0) \/ (~desc /\ order < 0)
             THEN idx - 1
             ELSE RunLength(s, idx + 1, desc)

RECURSIVE BinarySearch(_, _, _, _)
BinarySearch(s, pivot, left, right) ==
    \* 0-based bounds, as in the engine
    IF left >= right THEN left
    ELSE LET mid == left + ((right - left) \div 2)
         IN  IF Compare(pivot, s[mid + 1]) < 0
             THEN BinarySearch(s, pivot, left, mid)
             ELSE BinarySearch(s, pivot, mid + 1, right)

RECURSIVE BinaryInsertionSort(_, _)
BinaryInsertionSort(s, start) ==
    \* s[1..start] is the sorted prefix; start is 0-based index of the pivot
    IF start >= Len(s) THEN s
    ELSE LET pivot == s[start + 1]
             sortedPrefix == SubSeq(s, 1, start)
             left == BinarySearch(sortedPrefix, pivot, 0, start)
         IN  BinaryInsertionSort(
                 InsertAt(sortedPrefix, left, pivot) \o SubSeq(s, start + 2, Len(s)),
                 start + 1)

TimSort(s) ==
    IF Len(s) < 2 THEN s
    ELSE LET desc == Compare(s[2], s[1]) < 0
             run == RunLength(s, 3, desc)
             made == IF desc
                     THEN Reverse(SubSeq(s, 1, run)) \o SubSeq(s, run + 1, Len(s))
                     ELSE s
         IN  BinaryInsertionSort(made, run)

(* "insertion": a stable linear insertion sort (SpiderMonkey's short-array *)
(* path): an element moves left past every element that compares greater.  *)
RECURSIVE InsertPos(_, _, _)
InsertPos(s, item, j) ==
    \* j: 1-based index in the sorted prefix s being compared with item
    IF j < 1 THEN 0
    ELSE IF Compare(s[j], item) <= 0 THEN j
    ELSE InsertPos(s, item, j - 1)

RECURSIVE InsertionSortFrom(_, _)
InsertionSortFrom(s, i) ==
    IF i > Len(s) THEN s
    ELSE LET sortedPrefix == SubSeq(s, 1, i - 1)
             pos == InsertPos(sortedPrefix, s[i], i - 1)
         IN  InsertionSortFrom(
                 InsertAt(sortedPrefix, pos, s[i]) \o SubSeq(s, i + 1, Len(s)),
                 i + 1)

InsertionSort(s) == InsertionSortFrom(s, 2)

Engines == {"timsort", "insertion"}

\* items.sort((a, b) => ...)
SortItems(engine, its) ==
    IF engine = "timsort" THEN TimSort(its) ELSE InsertionSort(its)

(***************************************************************************)
(* MessageBubble.parsedContent: the citation regular expression            *)
(*   /\[\s*(\d+)\s*:\s*(\d+)\s*(?:\|\s*["']([^"']+)["'])?\s*\]/g            *)
(* Every starred or plussed class is followed by a character outside the   *)
(* class, so the greedy match below is the only one backtracking can find. *)
(***************************************************************************)
DigitChars == {"0", "1", "2", "3", "4", "5", "6", "7", "8", "9"}
QuoteChars == {"\"", "'"}

\* one step of the pattern: a character class, complemented or not, taken
\* once ("one"), zero or more times ("star") or one or more times ("plus")
One(class) == [rep |-> "one", class |-> class, neg |-> FALSE]
Star(class) == [rep |-> "star", class |-> class, neg |-> FALSE]
Plus(class) == [rep |-> "plus", class |-> class, neg |-> FALSE]
PlusNot(class) == [rep |-> "plus", class |-> class, neg |-> TRUE]

\* \[\s*(\d+)\s*:\s*(\d+)\s*   steps 1..8
HeadSteps ==
    <<One({"["}), Star(WhiteSpace), Plus(DigitChars), Star(WhiteSpace),
      One({":"}), Star(WhiteSpace), Plus(DigitChars), Star(WhiteSpace)>>

\* \|\s*["']([^"']+)["']       the optional group
QuoteSteps ==
    <<One({"|"}), Star(WhiteSpace), One(QuoteChars), PlusNot(QuoteChars),
      One(QuoteChars)>>

\* \s*\]
CloseSteps == <<Star(WhiteSpace), One({"]"})>>

InClass(c, step) == (c \in step.class) # step.neg

\* the first position at or after p whose character the step does not take
RECURSIVE SkipChars(_, _, _)
SkipChars(text, p, step) ==
    IF p <= Len(text) /\ InClass(text[p], step)
    THEN SkipChars(text, p + 1, step)
    ELSE p

\* the positions after each step when the steps match from the last position
\* of at, <<>> when they do not
RECURSIVE RunSteps(_, _, _, _)
RunSteps(text, steps, k, at) ==
    IF k > Len(steps) THEN at
    ELSE LET p == at[Len(at)]
             q == IF steps[k].rep = "one"
                  THEN IF p <= Len(text) /\ InClass(text[p], steps[k])
                       THEN p + 1 ELSE p
                  ELSE SkipChars(text, p, steps[k])
         IN  IF q = p /\ steps[k].rep # "star" THEN <<>>
             ELSE RunSteps(text, steps, k + 1, Append(at, q))

NoMatch == [ok |-> FALSE]

\* at[k + 1] is the position after step k
MatchRecord(text, at, hasQuote) ==
    [ok |-> TRUE, start |-> at[1], end |-> at[Len(at)],
     docIdx |-> SubSeq(text, at[3], at[4] - 1),
     pageNum |-> SubSeq(text, at[7], at[8] - 1),
     hasQuote |-> hasQuote,
     quote |-> IF hasQuote THEN SubSeq(text, at[12], at[13] - 1) ELSE <<>>]

\* the first of the two alternatives that matches: with the group, without
FirstMatch(text, quoted, plain) ==
    IF quoted # <<>> THEN MatchRecord(text, quoted, TRUE)
    ELSE IF plain # <<>> THEN MatchRecord(text, plain, FALSE)
    ELSE NoMatch

\* the pattern tried at position start; end is the position after the match
MatchAt(text, start) ==
    FirstMatch(text,
               RunSteps(text, HeadSteps \o QuoteSteps \o CloseSteps, 1, <<start>>),
               RunSteps(text, HeadSteps \o CloseSteps, 1, <<start>>))

\* the matches String.prototype.replace visits with the g flag, left to right
RECURSIVE MatchesFrom(_, _)
MatchesFrom(text, pos) ==
    IF pos > Len(text) THEN <<>>
    ELSE IF text[pos] # "[" THEN MatchesFrom(text, pos + 1)
    ELSE LET m == MatchAt(text, pos)
         IN  IF m.ok
             THEN <<m>> \o MatchesFrom(text, m.end)
             ELSE MatchesFrom(text, pos + 1)

Matches(text) == MatchesFrom(text, 1)

DigitValue(c) ==
    CASE c = "0" -> 0 [] c = "1" -> 1 [] c = "2" -> 2 [] c = "3" -> 3
      [] c = "4" -> 4 [] c = "5" -> 5 [] c = "6" -> 6 [] c = "7" -> 7
      [] c = "8" -> 8 [] c = "9" -> 9

\* parseInt of a string of decimal digits
RECURSIVE ParseInt(_)
ParseInt(digits) ==
    IF Len(digits) = 0 THEN 0
    ELSE 10 * ParseInt(SubSeq(digits, 1, Len(digits) - 1))
           + DigitValue(digits[Len(digits)])

(***************************************************************************)
(* MessageBubble.parsedContent: placeholders, markdown, re-injection.      *)
(***************************************************************************)
TokenPrefix == <<"C", "I", "T", "A", "T", "I", "O", "N", "T", "O", "K", "E", "N">>

\* `CITATIONTOKEN${docIdx}X${pageNum}X${suffix}`
Token(m, suffix) == TokenPrefix \o m.docIdx \o <<"X">> \o m.pageNum \o <<"X">> \o suffix

\* Math.random().toString(36).substr(2, 9): base-36 digits, possibly none
SuffixChars == {"a"}
Suffixes == UNION { [1..n -> SuffixChars] : n \in 0..MaxSuffixLen }

\* the value stored in citationMap for a match
CitationValue(m) ==
    [docIndex |-> ParseInt(m.docIdx),
     page |-> ParseInt(m.pageNum),
     quote |-> IF m.hasQuote THEN Trim(m.quote) ELSE <<>>]

\* Map.prototype.set: an existing key keeps its place and takes the new value
MapSet(map, token, value) ==
    IF \E i \in 1..Len(map) : map[i].token = token
    THEN [i \in 1..Len(map) |->
             IF map[i].token = token THEN [token |-> token, value |-> value]
             ELSE map[i]]
    ELSE Append(map, [token |-> token, value |-> value])

\* citationMap after the replace callback has run for matches k..
RECURSIVE BuildMap(_, _, _, _)
BuildMap(map, ms, toks, k) ==
    IF k > Len(ms) THEN map
    ELSE BuildMap(MapSet(map, toks[k], CitationValue(ms[k])), ms, toks, k + 1)

\* message.text with every match replaced by its token
RECURSIVE Substitute(_, _, _, _, _)
Substitute(text, ms, toks, pos, k) ==
    IF k > Len(ms) THEN SubSeq(text, pos, Len(text))
    ELSE SubSeq(text, pos, ms[k].start - 1) \o toks[k]
           \o Substitute(text, ms, toks, ms[k].end, k + 1)

\* an element of the rendered HTML: one piece of text, or a citation button
TextEl(c) == [kind |-> "text", ch |-> c]
ButtonEl(value, valid) ==
    [kind |-> "button", docIndex |-> value.docIndex, page |-> value.page,
     quote |-> value.quote, valid |-> valid]

EscapeChar(c) ==
    CASE c = "\"" -> "&quot;"
      [] c = "'" -> "&#39;"
      [] c = "&" -> "&amp;"
      [] c = "<" -> "&lt;"
      [] c = ">" -> "&gt;"
      [] OTHER -> c

(* marked.parse, an external library, for text without markdown syntax:    *)
(* the text becomes one paragraph and HTML-special characters are escaped. *)
(* Letters and digits, and so the placeholders, pass through unchanged.    *)
Marked(text) ==
    IF Len(text) = 0 THEN <<>>
    ELSE <<TextEl("<p>")>> \o [i \in 1..Len(text) |-> TextEl(EscapeChar(text[i]))]
           \o <<TextEl("</p>")>>

\* IsValid with the "- 1" forgotten: documents[value.docIndex]
IsValidOffByOne(docIndex, numDocs) == docIndex >= 0 /\ docIndex < numDocs

\* const doc = documents[value.docIndex - 1]; const isValid = !!doc;
IsValid(docIndex, numDocs) == docIndex - 1 >= 0 /\ docIndex - 1 < numDocs

\* html starts with the characters of token
StartsWithToken(html, token) ==
    /\ Len(html) >= Len(token)
    /\ \A i \in 1..Len(token) : html[i].kind = "text" /\ html[i].ch = token[i]

\* html.split(token).join(buttonHtml)
RECURSIVE SplitJoin(_, _, _)
SplitJoin(html, token, button) ==
    IF Len(html) = 0 THEN <<>>
    ELSE IF StartsWithToken(html, token)
    THEN <<button>> \o SplitJoin(SubSeq(html, Len(token) + 1, Len(html)), token, button)
    ELSE <<html[1]>> \o SplitJoin(Tail(html), token, button)

\* citationMap.forEach((value, token) => ...), in insertion order
RECURSIVE InjectAll(_, _, _, _)
InjectAll(html, map, numDocs, k) ==
    IF k > Len(map) THEN html
    ELSE InjectAll(
             SplitJoin(html, map[k].token,
                       ButtonEl(map[k].value, IsValid(map[k].value.docIndex, numDocs))),
             map, numDocs, k + 1)

\* the rest of parsedContent once the matches and their tokens are known
RenderWith(text, ms, toks, map, numDocs) ==
    [tokens |-> toks,
     citationMap |-> map,
     html |-> InjectAll(Marked(Substitute(text, ms, toks, 1, 1)), map, numDocs, 1)]

RenderTokens(text, ms, toks, numDocs) ==
    RenderWith(text, ms, toks, BuildMap(<<>>, ms, toks, 1), numDocs)

RenderMatches(text, ms, sfx, numDocs) ==
    RenderTokens(text, ms, [k \in 1..Len(ms) |-> Token(ms[k], sfx[k])], numDocs)

\* parsedContent for message text, the suffixes drawn and the library size
Render(text, sfx, numDocs) == RenderMatches(text, Matches(text), sfx, numDocs)

(***************************************************************************)
(* Model responses: concatenations of up to two segments.                  *)
(***************************************************************************)
Segments ==
    { <<"a">>,
      <<"[", "1", ":", "2", "]">>,
      <<"[", " ", "0", " ", ":", " ", "1", " ", "]">>,
      <<"[", "3", ":", "1", "|", "\"", "q", "\"", "]">>,
      <<"[", "1", ":", "2", " ", "|", " ", "'", "r", "'", " ", "]">>,
      <<"[", "1", ":", "2", "|", "\"", "q", "'", "]">>,
      <<"[", "2", ":", "1", "|", "\"", "[", "1", ":", "2", "]", "\"", "]">>,
      TokenPrefix \o <<"1", "X", "2", "X">> }

\* the responses: nothing, one segment, or two segments in a row
Responses == {<<>>} \cup Segments \cup { a \o b : a, b \in Segments }

(***************************************************************************)
(* State.                                                                  *)
(***************************************************************************)
VARIABLES
    pdf,        \* parsePdf: the document, a sequence of pages of text items
    pageNo,     \* parsePdf: the page loop's i
    items,      \* parsePdf: the mapped (then sorted) items of the current page
    idx,        \* parsePdf: position of the walk in items
    pageText,   \* parsePdf: text accumulated for the current page
    lastY,      \* parsePdf: y of the previous run, or -1
    lastX,      \* parsePdf: right edge of the previous run, or -1
    fullText,   \* parsePdf: text accumulated for the document
    pc,         \* parsePdf: "page" | "sort" | "walk" | "resolved"
    numDocuments, \* App: documents.length (parsedContent reads documents[k] only for definedness)
    response,   \* handleSendMessage: everything the stream will yield
    messageText,\* the AI message's text (accumulatedText once a chunk arrived)
    streamPc,   \* the AI message: "idle" (none) | "streaming" | "done" | "failed"
    tokens,     \* parsedContent: the placeholder drawn for each match, in order
    citationMap,\* parsedContent: the Map token -> citation, in insertion order
    html,       \* parsedContent: the rendered elements
    spans,      \* PdfViewer: the text layer's children, each with its highlight
    scrolls,    \* highlightQuote: the spans the last call scrolled into view
    lastCall,   \* highlightQuote: the last call's argument and locals, or NoCall
    currentPage,   \* PdfViewer: the displayed page
    citationQuote, \* PdfViewer: the citationQuote prop (<<>> when absent)
    renders,    \* PdfViewer: the renderPage calls in flight
    pdfDoc,     \* PdfViewer: whether the document has loaded (pdfDoc is set)
    activeDocument, \* App: index of the active document, 0 for null
    citationTarget, \* App: the citation target, or NoTarget
    mobileTab,  \* App: "library" | "pdf" | "chat"
    error,      \* App: the notice shown, "none" for null
    activated,  \* Message: the citation control the last click activated
    documents,  \* App: the library, a sequence of document ids
    selectedDocIds, \* App: the set of selected ids
    db,         \* IndexedDB: the ids of the stored documents
    handlers,   \* App: the asynchronous library handlers in flight
    context,    \* handleSendMessage: the documents sent with the last query
    nextId,     \* the id the next new document gets
    dbFault,    \* IndexedDB: a request of a handler was rejected
    messages,   \* App: the message list
    isLoading,  \* App: a request is in flight
    isRestoring,\* App: the session is being restored
    hydrate,    \* App: the hydration effect, "loading" | "done"
    requests,   \* App: the send / summarize calls awaiting their stream
    stored,     \* localStorage: the saved message list (<<>> when absent)
    now         \* Date.now()

layoutVars == <<pdf, pageNo, items, idx, pageText, lastY, lastX, fullText, pc>>

citationVars == <<numDocuments, response, messageText, streamPc, tokens, citationMap, html>>

viewerVars == <<spans, scrolls, lastCall, currentPage, citationQuote, renders, pdfDoc>>

appVars == <<activeDocument, citationTarget, mobileTab, error, activated>>

libraryVars == <<documents, selectedDocIds, db, handlers, context, nextId, dbFault>>

chatVars == <<messages, isLoading, isRestoring, hydrate, requests, stored, now>>

\* the library and the message history
sessionVars == <<libraryVars, chatVars>>

\* what parsePdf leaves alone
outsideLayout == <<citationVars, viewerVars, appVars, sessionVars>>

\* what the chat message leaves alone
outsideCitation == <<layoutVars, viewerVars, appVars, sessionVars>>

vars == <<layoutVars, citationVars, viewerVars, appVars, sessionVars>>

(***************************************************************************)
(* parsePdf: the walk over the sorted items (one loop iteration).          *)
(***************************************************************************)
\* BreakJoin with the hyphen test forgotten: the slice always happens
BreakJoinUnchecked(text, joiner) == SliceDropLast(Trim(text))

\* the de-hyphenation check shared by the paragraph and the line break
BreakJoin(text, joiner) ==
    IF EndsWith(Trim(text), "-")
    THEN SliceDropLast(Trim(text))
    ELSE text \o joiner

\* the same-line branch: a space when the gap exceeds height * 0.2
SameLineJoin(text, prevX, item) ==
    IF prevX # NoLast /\ 10 * item.x > 10 * prevX + 2 * item.height
    THEN IF ~StartsWith(item.str, " ") /\ ~EndsWith(text, " ")
         THEN text \o <<" ">>
         ELSE text
    ELSE text

\* pageText after the joiner for item has been decided, before item.str
JoinBefore(text, prevY, prevX, item) ==
    IF prevY # NoLast
    THEN LET dy == Abs(item.y - prevY)
         IN  IF 10 * dy > 6 * item.height
             THEN IF 10 * dy > 16 * item.height
                  THEN BreakJoin(text, <<"\n", "\n">>)
                  ELSE BreakJoin(text, <<" ">>)
             ELSE SameLineJoin(text, prevX, item)
    ELSE text

\* WalkItem with "pageText = item.str" in place of "pageText += item.str"
WalkItemAssign(st, item) ==
    [pageText |-> item.str, lastY |-> item.y, lastX |-> item.x + item.width]

\* one iteration of "for (const item of items)"
WalkItem(st, item) ==
    [pageText |-> JoinBefore(st.pageText, st.lastY, st.lastX, item) \o item.str,
     lastY |-> item.y,
     lastX |-> item.x + item.width]

WalkStart == [pageText |-> <<>>, lastY |-> NoLast, lastX |-> NoLast]

RECURSIVE WalkFrom(_, _, _)
WalkFrom(st, its, i) ==
    IF i > Len(its) THEN st ELSE WalkFrom(WalkItem(st, its[i]), its, i + 1)

\* the page text of a list of items under a given sort engine
PageTextOf(engine, its) ==
    WalkFrom(WalkStart, SortItems(engine, MapItems(its)), 1).pageText

(***************************************************************************)
(* parsePdf: actions.                                                      *)
(***************************************************************************)
\* getPage(i), getTextContent(), items.map: start page pageNo
GetPage ==
    /\ pc = "page"
    /\ pageNo <= Len(pdf)
    /\ items' = MapItems(pdf[pageNo])
    /\ pageText' = <<>>
    /\ lastY' = NoLast
    /\ lastX' = NoLast
    /\ idx' = 1
    /\ pc' = "sort"
    /\ UNCHANGED <<pdf, pageNo, fullText, outsideLayout>>

\* items.sort(...)
Sort ==
    /\ pc = "sort"
    /\ \E engine \in Engines : items' = SortItems(engine, items)
    /\ pc' = "walk"
    /\ UNCHANGED <<pdf, pageNo, idx, pageText, lastY, lastX, fullText, outsideLayout>>

\* one iteration of the walk
Walk ==
    /\ pc = "walk"
    /\ idx <= Len(items)
    /\ LET st == WalkItem([pageText |-> pageText, lastY |-> lastY, lastX |-> lastX],
                          items[idx])
       IN  /\ pageText' = st.pageText
           /\ lastY' = st.lastY
           /\ lastX' = st.lastX
    /\ idx' = idx + 1
    /\ UNCHANGED <<pdf, pageNo, items, fullText, pc, outsideLayout>>

\* fullText += pageText + '\n\n'; next page
EndPage ==
    /\ pc = "walk"
    /\ idx > Len(items)
    /\ fullText' = fullText \o pageText \o <<"\n", "\n">>
    /\ pageNo' = pageNo + 1
    /\ pc' = "page"
    /\ UNCHANGED <<pdf, items, idx, pageText, lastY, lastX, outsideLayout>>

\* resolve(fullText)
Resolve ==
    /\ pc = "page"
    /\ pageNo > Len(pdf)
    /\ pc' = "resolved"
    /\ UNCHANGED <<pdf, pageNo, items, idx, pageText, lastY, lastX, fullText, outsideLayout>>

ParseNext == GetPage \/ Sort \/ Walk \/ EndPage \/ Resolve

\* no parse in progress
LayoutIdle ==
    /\ pdf = <<>>
    /\ pageNo = 1
    /\ items = <<>>
    /\ idx = 1
    /\ pageText = <<>>
    /\ lastY = NoLast
    /\ lastX = NoLast
    /\ fullText = <<>>
    /\ pc = "resolved"

\* an empty library and no AI message
CitationIdle ==
    /\ numDocuments = 0
    /\ response = <<>>
    /\ messageText = <<>>
    /\ streamPc = "idle"
    /\ tokens = <<>>
    /\ citationMap = <<>>
    /\ html = <<>>

NoCall == [called |-> FALSE]
NoTarget == [set |-> FALSE]
NoActivation == [done |-> FALSE]

\* no text layer rendered, no render in flight
ViewerIdle ==
    /\ spans = <<>>
    /\ scrolls = <<>>
    /\ lastCall = NoCall
    /\ currentPage = 1
    /\ citationQuote = <<>>
    /\ renders = <<>>
    /\ pdfDoc = FALSE

\* no active document, no citation target, no notice
AppIdle ==
    /\ activeDocument = 0
    /\ citationTarget = NoTarget
    /\ mobileTab = "library"
    /\ error = "none"
    /\ activated = NoActivation

NoContext == [sent |-> FALSE]

\* an empty library, nothing stored, no handler running
LibraryIdle ==
    /\ documents = <<>>
    /\ selectedDocIds = {}
    /\ db = {}
    /\ handlers = <<>>
    /\ context = NoContext
    /\ nextId = 1
    /\ dbFault = FALSE

\* the session is restored; no message history, none stored, no request
ChatIdle ==
    /\ messages = <<>>
    /\ isLoading = FALSE
    /\ isRestoring = FALSE
    /\ hydrate = "done"
    /\ requests = <<>>
    /\ stored = <<>>
    /\ now = 1

SessionIdle == LibraryIdle /\ ChatIdle

\* parsePdf on a one-page document whose runs are drawn from TextItems
InitLayout ==
    /\ CitationIdle
    /\ ViewerIdle
    /\ AppIdle
    /\ SessionIdle
    /\ pdf \in { <<p>> : p \in PagesOf(MaxRuns) }
    /\ pageNo = 1
    /\ items = <<>>
    /\ idx = 1
    /\ pageText = <<>>
    /\ lastY = NoLast
    /\ lastX = NoLast
    /\ fullText = <<>>
    /\ pc = "page"

SpecLayout == InitLayout /\ [][ParseNext]_vars

(***************************************************************************)
(* The AI message of one exchange: streaming, library changes, rendering.  *)
(***************************************************************************)
ErrorSuffix ==
    <<"\n", "\n", "[", "E", "r", "r", "o", "r", ":", " ", "C", "o", "n", "n",
      "e", "c", "t", "i", "o", "n", " ", "i", "n", "t", "e", "r", "r", "u",
      "p", "t", "e", "d", "]">>

\* the memoised value of parsedContent becomes r
SetParsed(r) ==
    /\ tokens' = r.tokens
    /\ citationMap' = r.citationMap
    /\ html' = r.html

\* parsedContent runs on text whose matches are ms: every match draws a suffix
RerenderMatches(text, ms, numDocs) ==
    \E sfx \in [1..Len(ms) -> Suffixes] :
        SetParsed(RenderMatches(text, ms, sfx, numDocs))

\* useMemo re-runs parsedContent
Rerender(text, numDocs) == RerenderMatches(text, Matches(text), numDocs)

\* handleSendMessage up to the first chunk: the placeholder message is empty.
\* One AI message is followed; a later exchange runs the same code on a new one.
SendMessage ==
    /\ streamPc = "idle"
    /\ numDocuments > 0
    /\ response' \in Responses
    /\ messageText' = <<>>
    /\ streamPc' = "streaming"
    /\ Rerender(<<>>, numDocuments)
    /\ UNCHANGED <<numDocuments, outsideCitation>>

\* for await (const chunk of stream): accumulatedText += chunk; setMessages
StreamChunk ==
    /\ streamPc = "streaming"
    /\ Len(messageText) < Len(response)
    /\ \E n \in (Len(messageText) + 1)..(Len(messageText) + MaxChunk) :
          /\ n <= Len(response)
          /\ messageText' = SubSeq(response, 1, n)
          /\ Rerender(SubSeq(response, 1, n), numDocuments)
    /\ UNCHANGED <<numDocuments, response, streamPc, outsideCitation>>

\* the stream is exhausted: isStreaming false; text and documents unchanged,
\* so the memoised parsedContent is kept
StreamEnd ==
    /\ streamPc = "streaming"
    /\ Len(messageText) = Len(response)
    /\ streamPc' = "done"
    /\ UNCHANGED <<numDocuments, response, messageText, tokens, citationMap,
                   html, outsideCitation>>

\* catch: text + '\n\n[Error: Connection interrupted]', isStreaming false
StreamError ==
    /\ streamPc = "streaming"
    /\ messageText' = messageText \o ErrorSuffix
    /\ streamPc' = "failed"
    /\ Rerender(messageText \o ErrorSuffix, numDocuments)
    /\ UNCHANGED <<numDocuments, response, outsideCitation>>

\* handleFileChange: setDocuments(newDocuments) with at least one new document
DocumentsAdded ==
    /\ numDocuments < MaxDocuments
    /\ \E n \in (numDocuments + 1)..MaxDocuments :
          /\ numDocuments' = n
          /\ Rerender(messageText, n)
    /\ UNCHANGED <<response, messageText, streamPc, outsideCitation>>

\* handleDeleteSelected: setDocuments(documents.filter(...))
DocumentsDeleted ==
    /\ numDocuments > 0
    /\ \E n \in 0..(numDocuments - 1) :
          /\ numDocuments' = n
          /\ Rerender(messageText, n)
    /\ UNCHANGED <<response, messageText, streamPc, outsideCitation>>

\* handleClearLibrary: setDocuments([]); setMessages([])
ClearLibrary ==
    /\ numDocuments' = 0
    /\ response' = <<>>
    /\ messageText' = <<>>
    /\ streamPc' = "idle"
    /\ tokens' = <<>>
    /\ citationMap' = <<>>
    /\ html' = <<>>
    /\ UNCHANGED outsideCitation

CitationNext ==
    \/ SendMessage
    \/ StreamChunk
    \/ StreamEnd
    \/ StreamError
    \/ DocumentsAdded
    \/ DocumentsDeleted
    \/ ClearLibrary

InitCitation ==
    LayoutIdle /\ CitationIdle /\ ViewerIdle /\ AppIdle /\ SessionIdle

SpecCitation == InitCitation /\ [][CitationNext]_vars

(***************************************************************************)
(* Claims about parsePdf's page walk.                                      *)
(***************************************************************************)
\* the walk is about to process a run that has a predecessor
WalkPending == pc = "walk" /\ idx <= Len(items) /\ idx > 1
\* the walk has processed every run of the page
WalkDone == pc = "walk" /\ idx > Len(items)

\* |y - y of the previous run| of the run about to be processed
StepDy == Abs(items[idx].y - items[idx - 1].y)
\* x - (previous run's x + width) of the run about to be processed
StepGap == items[idx].x - (items[idx - 1].x + items[idx - 1].width)

EndsWithSpaceChar(s) == Len(s) > 0 /\ s[Len(s)] \in WhiteSpace
StartsWithSpaceChar(s) == Len(s) > 0 /\ s[1] \in WhiteSpace

(* C1: for every run after the first, with dy = |y - previous run's y| and *)
(* h the run's height: dy <= 0.6h is treated as the same line, 0.6h < dy   *)
(* <= 1.6h joins with one space and dy > 1.6h joins with "\n\n" (the last  *)
(* two when the accumulated text has no hyphen at its end), whatever the   *)
(* previous run's coordinates, y = -1 included.  The hyphen condition is   *)
(* taken after trimming, so that de-hyphenation (C3) is not what is        *)
(* tested here.                                                            *)
C1_GapClassification ==
    [][ WalkPending =>
          LET cur == items[idx]
              h == cur.height
              noHyphen == ~EndsWith(Trim(pageText), "-")
          IN  /\ (10 * StepDy <= 6 * h)
                    => pageText' = SameLineJoin(pageText, lastX, cur) \o cur.str
              /\ (10 * StepDy > 6 * h /\ 10 * StepDy <= 16 * h /\ noHyphen)
                    => pageText' = pageText \o <<" ">> \o cur.str
              /\ (10 * StepDy > 16 * h /\ noHyphen)
                    => pageText' = pageText \o <<"\n", "\n">> \o cur.str
      ]_vars

(* C2: two consecutive runs on the same line (dy <= 0.6h) are joined by    *)
(* exactly one space iff x - (previous x + width) > 0.2h and neither the   *)
(* end of the accumulated text nor the start of the run's text is a        *)
(* white-space character; otherwise by nothing.                            *)
C2_SameLineSpace ==
    [][ (WalkPending /\ 10 * StepDy <= 6 * items[idx].height) =>
          LET cur == items[idx]
              space == /\ 10 * StepGap > 2 * cur.height
                       /\ ~EndsWithSpaceChar(pageText)
                       /\ ~StartsWithSpaceChar(cur.str)
          IN  pageText' = pageText \o (IF space THEN <<" ">> ELSE <<>>) \o cur.str
      ]_vars

(* C3: at a line or paragraph break the walk de-hyphenates exactly when    *)
(* the accumulated text ends with "-": it removes that one hyphen, changes *)
(* no other character and appends the run with no separator; otherwise it  *)
(* inserts the break's joiner.                                             *)
C3_Dehyphenation ==
    [][ (pc = "walk" /\ idx <= Len(items) /\ lastY # NoLast
            /\ 10 * Abs(items[idx].y - lastY) > 6 * items[idx].height) =>
          LET cur == items[idx]
              dy == Abs(cur.y - lastY)
              joiner == IF 10 * dy > 16 * cur.height THEN <<"\n", "\n">> ELSE <<" ">>
          IN  pageText' = (IF EndsWith(pageText, "-")
                           THEN SliceDropLast(pageText)
                           ELSE pageText \o joiner) \o cur.str
      ]_vars

(***************************************************************************)
(* Claims about the page text as a whole.                                  *)
(***************************************************************************)
\* the runs the walk has processed so far, in sorted order
Walked == SubSeq(items, 1, idx - 1)

Joiners == { <<>>, <<" ">>, <<"\n", "\n">> }

\* every text made of the runs' texts in order, separated by joiners only
RECURSIVE JoinedTexts(_)
JoinedTexts(its) ==
    IF Len(its) = 0 THEN { <<>> }
    ELSE IF Len(its) = 1 THEN { its[1].str }
    ELSE { t \o j \o its[Len(its)].str :
             t \in JoinedTexts(SubSeq(its, 1, Len(its) - 1)), j \in Joiners }

RECURSIVE ConcatStrs(_)
ConcatStrs(its) ==
    IF Len(its) = 0 THEN <<>> ELSE its[1].str \o ConcatStrs(Tail(its))

\* the characters de-hyphenation can remove: "-" and white space
Strippable == WhiteSpace \cup {"-"}
IsKept(c) == c \notin Strippable
Kept(s) == SelectSeq(s, IsKept)

IsSubstring(t, s) ==
    \E k \in 0..(Len(s) - Len(t)) : SubSeq(s, k + 1, k + Len(t)) = t

RECURSIVE StripTail(_)
StripTail(s) ==
    IF Len(s) > 0 /\ s[Len(s)] \in Strippable
    THEN StripTail(SubSeq(s, 1, Len(s) - 1))
    ELSE s

\* a run's text without leading white space and trailing "-" / white space
Core(s) == TrimStart(StripTail(s))

HasHyphen(s) == \E i \in 1..Len(s) : s[i] = "-"

(* C4 as stated: the page text is the runs' texts in sorted order,         *)
(* characters unchanged, separated only by joiners from {none, " ",        *)
(* "\n\n"}; no character of a run is removed, altered or moved.            *)
C4_OnlyJoinersVary == pc = "walk" => pageText \in JoinedTexts(Walked)

(* C4 amended: de-hyphenation removes characters of the runs, but only     *)
(* "-" and white space: every other character of the runs' texts appears   *)
(* unchanged and in sorted order, and when no run contains "-" the page    *)
(* text is exactly the runs' texts separated by joiners.                   *)
C4_OnlyHyphenAndBlankRemoved ==
    pc = "walk" =>
        /\ Kept(pageText) = Kept(ConcatStrs(Walked))
        /\ (\A i \in 1..Len(Walked) : ~HasHyphen(Walked[i].str))
              => pageText \in JoinedTexts(Walked)

\* a walk of two runs in which de-hyphenation removed characters
C4_Witness ==
    /\ WalkDone
    /\ Len(items) = 2
    /\ Len(pageText) < Len(items[1].str) + Len(items[2].str)
    /\ Kept(pageText) = <<"b", "a">>

(* C5 as stated: for a non-empty list of runs, whatever the coordinates,   *)
(* the page text is non-empty when some run's text is, and every run's     *)
(* text is present in it.                                                  *)
C5_NoRunDropped ==
    (WalkDone /\ Len(items) > 0) =>
        /\ (\E i \in 1..Len(items) : items[i].str # <<>>) => pageText # <<>>
        /\ \A i \in 1..Len(items) : IsSubstring(items[i].str, pageText)

(* C5 amended: every run's text is present up to the leading white space   *)
(* and the trailing hyphens and white space that de-hyphenation strips,    *)
(* and the page text is non-empty when some run has any other character.   *)
C5_RunCorePresent ==
    (WalkDone /\ Len(items) > 0) =>
        /\ \A i \in 1..Len(items) : IsSubstring(Core(items[i].str), pageText)
        /\ (\E i \in 1..Len(items) : Core(items[i].str) # <<>>) => pageText # <<>>

\* runs with negative coordinates, the first of which lost its tail
C5_Witness ==
    /\ WalkDone
    /\ Len(items) = 2
    /\ items[1].x < 0 /\ items[2].y < 0
    /\ ~IsSubstring(items[1].str, pageText)
    /\ IsSubstring(Core(items[1].str), pageText)
    /\ Core(items[1].str) # <<>>

PermutationsOf(s) ==
    { [i \in 1..Len(s) |-> s[f[i]]] : f \in Permutations(1..Len(s)) }

\* no two runs of the page start at the same point
DistinctPositions(its) ==
    \A i, j \in 1..Len(its) : i # j => (its[i].x # its[j].x \/ its[i].y # its[j].y)

(* C6: the sort yields one reading order whatever the input order: every   *)
(* permutation of the page's runs gives the same page text.  Stated for    *)
(* pages whose runs start at pairwise different points, so that two runs   *)
(* drawn at the same point are not what is tested.                         *)
C6_OrderIndependent ==
    (WalkDone /\ DistinctPositions(pdf[pageNo])) =>
        \A p \in PermutationsOf(pdf[pageNo]) : \A e \in Engines :
            PageTextOf(e, p) = pageText

(***************************************************************************)
(* Citation claims.                                                        *)
(***************************************************************************)
IsButton(el) == el.kind = "button"
Buttons(h) == SelectSeq(h, IsButton)
InLibrary(docIndex) == 1 <= docIndex /\ docIndex <= numDocuments

\* the rendering in which exactly the matches ms are controls, each carrying
\* its own fields, and every other character is ordinary (escaped) text
RECURSIVE SpanElements(_, _, _, _)
SpanElements(text, ms, pos, k) ==
    IF k > Len(ms)
    THEN [i \in 1..(Len(text) + 1 - pos) |-> TextEl(EscapeChar(text[pos + i - 1]))]
    ELSE [i \in 1..(ms[k].start - pos) |-> TextEl(EscapeChar(text[pos + i - 1]))]
           \o <<ButtonEl(CitationValue(ms[k]), InLibrary(ParseInt(ms[k].docIdx)))>>
           \o SpanElements(text, ms, ms[k].end, k + 1)

SpansHtml(text, ms) ==
    IF Len(text) = 0 THEN <<>>
    ELSE <<TextEl("<p>")>> \o SpanElements(text, ms, 1, 1) \o <<TextEl("</p>")>>

\* the grammar of the specification: the quoted string is delimited by a
\* matching pair of double quotes or a matching pair of single quotes
PairSteps(q) == <<One({"|"}), Star(WhiteSpace), One({q}), PlusNot({q}), One({q})>>

GrammarFirst(text, double, single, plain) ==
    IF double # <<>> THEN MatchRecord(text, double, TRUE)
    ELSE FirstMatch(text, single, plain)

GrammarMatchAt(text, start) ==
    GrammarFirst(text,
                 RunSteps(text, HeadSteps \o PairSteps("\"") \o CloseSteps, 1, <<start>>),
                 RunSteps(text, HeadSteps \o PairSteps("'") \o CloseSteps, 1, <<start>>),
                 RunSteps(text, HeadSteps \o CloseSteps, 1, <<start>>))

RECURSIVE GrammarMatchesFrom(_, _)
GrammarMatchesFrom(text, pos) ==
    IF pos > Len(text) THEN <<>>
    ELSE LET m == GrammarMatchAt(text, pos)
         IN  IF m.ok
             THEN <<m>> \o GrammarMatchesFrom(text, m.end)
             ELSE GrammarMatchesFrom(text, pos + 1)

\* no placeholder is part of another's, none occurs in the message text
TokensApart ==
    /\ \A i, j \in 1..Len(tokens) : i # j => ~IsSubstring(tokens[i], tokens[j])
    /\ \A i \in 1..Len(tokens) : ~IsSubstring(tokens[i], messageText)

(* C7: a substring of the response becomes a citation control if and only  *)
(* if it matches the grammar with a matching pair of quotes; the controls  *)
(* come out in source order, each with its own docIndex, page and quote,   *)
(* and every other character is passed through as text.  (Placeholders are *)
(* taken to be apart, so that only the recognition is in question.)        *)
C7_GrammarRecognised ==
    TokensApart => html = SpansHtml(messageText, GrammarMatchesFrom(messageText, 1))

(* C8: every citation control is marked valid exactly when                 *)
(* 1 <= docIndex <= number of documents now in the library, and every      *)
(* recognised citation, in range or not, has its control in the rendering. *)
C8_ValidIffInLibrary ==
    /\ \A i \in 1..Len(html) :
          IsButton(html[i]) => (html[i].valid <=> InLibrary(html[i].docIndex))
    /\ Len(Buttons(html)) >= Len(Matches(messageText))
    /\ \A k \in 1..Len(Matches(messageText)) :
          \E i \in 1..Len(html) :
             /\ IsButton(html[i])
             /\ html[i].docIndex = ParseInt(Matches(messageText)[k].docIdx)
             /\ html[i].page = ParseInt(Matches(messageText)[k].pageNum)

\* a rendering with an out-of-range control next to an in-range one, the
\* library not empty
C8_Witness ==
    /\ numDocuments > 0
    /\ \E i, j \in 1..Len(html) :
          /\ IsButton(html[i]) /\ ~html[i].valid /\ html[i].docIndex > numDocuments
          /\ IsButton(html[j]) /\ html[j].valid

\* the matches of the whole response that end within its first n characters
CompleteBy(n) ==
    LET IsComplete(m) == m.end <= n + 1
    IN  SelectSeq(Matches(response), IsComplete)

(* C9: while the response streams, the rendering of each prefix recognises *)
(* exactly the markers of the response that are complete in the prefix; an *)
(* unterminated marker at the end of the prefix is literal text.           *)
(* (Placeholders are taken to be apart.)                                   *)
C9_UnterminatedTailLiteral ==
    (streamPc = "streaming" /\ TokensApart) =>
        html = SpansHtml(messageText, CompleteBy(Len(messageText)))

(* C10: placeholders never collide, whatever the text and the suffixes     *)
(* drawn: none is part of another's, none occurs in the text, and          *)
(* re-injection puts at each citation the control generated for it.        *)
C10_PlaceholdersNeverCollide ==
    /\ TokensApart
    /\ html = SpansHtml(messageText, Matches(messageText))

(***************************************************************************)
(* Reading order and document text.                                        *)
(***************************************************************************)
\* a and b are on one line, a to the left of b
LeftOnLine(a, b) ==
    /\ 2 * Abs(a.y - b.y) <= a.height
    /\ 2 * Abs(a.y - b.y) <= b.height
    /\ a.x < b.x

\* a is on a line above b's: higher by more than half of either height
OnLineAbove(a, b) ==
    /\ 2 * (a.y - b.y) > a.height
    /\ 2 * (a.y - b.y) > b.height

\* the runs are given line by line from the top, left to right in a line
InReadingOrder(its) ==
    \A i, j \in 1..Len(its) :
        i < j => (LeftOnLine(its[i], its[j]) \/ OnLineAbove(its[i], its[j]))

\* the texts strs[k..] occur in text from position from on, in that order
\* and without overlap
RECURSIVE OccursInOrder(_, _, _, _)
OccursInOrder(strs, text, k, from) ==
    IF k > Len(strs) THEN TRUE
    ELSE \E p \in from..(Len(text) - Len(strs[k]) + 1) :
            /\ SubSeq(text, p, p + Len(strs[k]) - 1) = strs[k]
            /\ OccursInOrder(strs, text, k + 1, p + Len(strs[k]))

RunTexts(its) == [i \in 1..Len(its) |-> its[i].str]
RunCores(its) == [i \in 1..Len(its) |-> Core(its[i].str)]

C20_PagesJoined ==
    (pc = "resolved" /\ Len(pdf) = 1) => fullText = pageText

(***************************************************************************)
(* PdfViewer.highlightQuote: normalisation, search and marking.            *)
(***************************************************************************)
\* spans in the text layer
MaxSpans == 3

\* indexOf's "not found"
NotFound == -1

UpperChars ==
    <<"A", "B", "C", "D", "E", "F", "G", "H", "I", "J", "K", "L", "M",
      "N", "O", "P", "Q", "R", "S", "T", "U", "V", "W", "X", "Y", "Z">>
LowerChars ==
    <<"a", "b", "c", "d", "e", "f", "g", "h", "i", "j", "k", "l", "m",
      "n", "o", "p", "q", "r", "s", "t", "u", "v", "w", "x", "y", "z">>

ToLowerChar(c) ==
    IF \E i \in 1..Len(UpperChars) : UpperChars[i] = c
    THEN LowerChars[CHOOSE i \in 1..Len(UpperChars) : UpperChars[i] = c]
    ELSE c

\* toLowerCase()
ToLowerCase(s) == [i \in 1..Len(s) |-> ToLowerChar(s[i])]

\* replace(/\s+/g, ' ')
RECURSIVE CollapseSpace(_)
CollapseSpace(s) ==
    IF Len(s) = 0 THEN <<>>
    ELSE IF s[1] \in WhiteSpace THEN <<" ">> \o CollapseSpace(TrimStart(s))
    ELSE <<s[1]>> \o CollapseSpace(Tail(s))

\* quote.toLowerCase().replace(/\s+/g, ' ').trim()
NormalizeQuote(quote) == Trim(CollapseSpace(ToLowerCase(quote)))

\* x || ' '
OrSpace(t) == IF Len(t) = 0 THEN <<" ">> ELSE t

\* SpanText with the quote's trim() applied as well
SpanTextTrimmed(text) == OrSpace(Trim(CollapseSpace(ToLowerCase(text))))

\* span.textContent?.toLowerCase().replace(/\s+/g, ' ') || ' '
SpanText(text) == OrSpace(CollapseSpace(ToLowerCase(text)))

\* fullPageText after the spans k.. have been appended to a text of length 0
RECURSIVE FullPageText(_, _)
FullPageText(sp, k) ==
    IF k > Len(sp) THEN <<>>
    ELSE SpanText(sp[k].text) \o FullPageText(sp, k + 1)

\* spanMap: for each span its [start, end) in fullPageText
RECURSIVE BuildSpanMap(_, _, _)
BuildSpanMap(sp, k, startIndex) ==
    IF k > Len(sp) THEN <<>>
    ELSE <<[start |-> startIndex,
            end |-> startIndex + Len(SpanText(sp[k].text)),
            element |-> k]>>
           \o BuildSpanMap(sp, k + 1, startIndex + Len(SpanText(sp[k].text)))

\* the 0-based position of the last occurrence of pat at or before k
RECURSIVE LastIndexOfFrom(_, _, _)
LastIndexOfFrom(text, pat, k) ==
    IF k < 0 THEN NotFound
    ELSE IF SubSeq(text, k + 1, k + Len(pat)) = pat THEN k
    ELSE LastIndexOfFrom(text, pat, k - 1)

\* IndexOf searching from the end: lastIndexOf
LastIndexOf(text, pat) == LastIndexOfFrom(text, pat, Len(text) - Len(pat))

\* the 0-based position of the first occurrence of pat at or after k
RECURSIVE IndexOfFrom(_, _, _)
IndexOfFrom(text, pat, k) ==
    IF k + Len(pat) > Len(text) THEN NotFound
    ELSE IF SubSeq(text, k + 1, k + Len(pat)) = pat THEN k
    ELSE IndexOfFrom(text, pat, k + 1)

\* fullPageText.indexOf(normalizedQuote)
IndexOf(text, pat) == IndexOfFrom(text, pat, 0)

Max(a, b) == IF a >= b THEN a ELSE b
Min(a, b) == IF a <= b THEN a ELSE b

\* Math.max(0, Math.min(quoteEnd, mapping.end) - Math.max(quoteIndex, mapping.start))
Overlap(mapping, quoteIndex, quoteEnd) ==
    Max(0, Min(quoteEnd, mapping.end) - Max(quoteIndex, mapping.start))

\* ScrollsIntoView without its test: every highlighted span is scrolled to
ScrollsAlways(mapping, quoteIndex) == TRUE

\* quoteIndex >= mapping.start && quoteIndex < mapping.end
ScrollsIntoView(mapping, quoteIndex) ==
    quoteIndex >= mapping.start /\ quoteIndex < mapping.end

\* ClearHighlights forgotten: the spans keep their background
KeepHighlights(sp) == sp

\* spans.forEach(span => span.style.backgroundColor = 'transparent')
ClearHighlights(sp) ==
    [i \in 1..Len(sp) |-> [sp[i] EXCEPT !.highlighted = FALSE]]

\* spanMap.forEach: the spans that intersect [quoteIndex, quoteEnd) are marked
MarkSpans(cleared, map, quoteIndex, quoteEnd) ==
    [i \in 1..Len(cleared) |->
        IF Overlap(map[i], quoteIndex, quoteEnd) > 0
        THEN [cleared[i] EXCEPT !.highlighted = TRUE]
        ELSE cleared[i]]

\* spanMap.forEach: the marked spans that are scrolled into view, in order
RECURSIVE ScrollTargets(_, _, _, _)
ScrollTargets(map, k, quoteIndex, quoteEnd) ==
    IF k > Len(map) THEN <<>>
    ELSE (IF /\ Overlap(map[k], quoteIndex, quoteEnd) > 0
             /\ ScrollsIntoView(map[k], quoteIndex)
          THEN <<map[k].element>> ELSE <<>>)
           \o ScrollTargets(map, k + 1, quoteIndex, quoteEnd)

Highlights(sp) == [i \in 1..Len(sp) |-> sp[i].highlighted]

\* what one call leaves behind: the spans, the scrolls, and its locals
CallRecord(sp, quote, nq, map, full, quoteIndex) ==
    [called |-> TRUE, quote |-> quote, before |-> Highlights(sp),
     normalizedQuote |-> nq, spanMap |-> map, fullPageText |-> full,
     quoteIndex |-> quoteIndex]

\* lines 75-93: the marking once the search has returned quoteIndex
HighlightLocated(sp, cleared, quote, nq, map, full, quoteIndex) ==
    [spans |-> IF quoteIndex # NotFound
               THEN MarkSpans(cleared, map, quoteIndex, quoteIndex + Len(nq))
               ELSE cleared,
     scrolls |-> IF quoteIndex # NotFound
                 THEN ScrollTargets(map, 1, quoteIndex, quoteIndex + Len(nq))
                 ELSE <<>>,
     call |-> CallRecord(sp, quote, nq, map, full, quoteIndex)]

\* lines 55-73: the map and the text are built, then searched
HighlightSearch(sp, cleared, quote, nq, map, full) ==
    HighlightLocated(sp, cleared, quote, nq, map, full, IndexOf(full, nq))

\* HighlightCleared with "if (!normalizedQuote) return" ahead of the clearing
HighlightReturnFirst(sp, cleared, quote, nq) ==
    IF Len(nq) = 0
    THEN [spans |-> sp, scrolls |-> <<>>,
          call |-> CallRecord(sp, quote, nq, <<>>, <<>>, NotFound)]
    ELSE HighlightSearch(sp, cleared, quote, nq,
                         BuildSpanMap(cleared, 1, 0), FullPageText(cleared, 1))

\* line 51: if (!normalizedQuote) return; the highlights are already cleared
HighlightCleared(sp, cleared, quote, nq) ==
    IF Len(nq) = 0
    THEN [spans |-> cleared, scrolls |-> <<>>,
          call |-> CallRecord(sp, quote, nq, <<>>, <<>>, NotFound)]
    ELSE HighlightSearch(sp, cleared, quote, nq,
                         BuildSpanMap(cleared, 1, 0), FullPageText(cleared, 1))

\* highlightQuote(quote) on a text layer whose children are sp
HighlightResult(sp, quote) ==
    HighlightCleared(sp, ClearHighlights(sp), quote, NormalizeQuote(quote))

(***************************************************************************)
(* highlightQuote applied to a rendered text layer.                        *)
(***************************************************************************)
FragmentTexts ==
    { <<"a">>, <<"A", " ", "\t">>, <<" ", "b">>, <<"a", "b">>, <<>> }

Quotes ==
    { <<"a", " ", "b">>,
      <<" ", "A", "\t", " ", "B", " ">>,
      <<"a", "b">>,
      <<"b", " ", "a">>,
      <<"x">>,
      <<" ">>,
      <<>> }

\* a span as renderTextLayer leaves it: its text, its page, no highlight
FreshSpan(text, page) == [text |-> text, page |-> page, highlighted |-> FALSE]

\* the text layers of page 1 with up to n spans
TextLayers(n) ==
    UNION { [1..k -> { FreshSpan(t, 1) : t \in FragmentTexts }] : k \in 0..n }

\* the call's outcome becomes the state of the text layer
SetHighlight(r) ==
    /\ spans' = r.spans
    /\ scrolls' = r.scrolls
    /\ lastCall' = r.call

\* highlightQuote(quote)
HighlightQuote ==
    /\ \E quote \in Quotes : SetHighlight(HighlightResult(spans, quote))
    /\ UNCHANGED <<currentPage, citationQuote, renders, layoutVars, sessionVars, pdfDoc,
                   citationVars, appVars>>

HighlightNext == HighlightQuote

InitHighlight ==
    /\ LayoutIdle
    /\ CitationIdle
    /\ AppIdle
    /\ SessionIdle
    /\ pdfDoc = TRUE
    /\ spans \in TextLayers(MaxSpans)
    /\ scrolls = <<>>
    /\ lastCall = NoCall
    /\ currentPage = 1
    /\ citationQuote = <<>>
    /\ renders = <<>>

SpecHighlight == InitHighlight /\ [][HighlightNext]_vars

(***************************************************************************)
(* Quote highlighting.                                                     *)
(***************************************************************************)
RECURSIVE JoinAll(_)
JoinAll(strs) ==
    IF Len(strs) = 0 THEN <<>> ELSE strs[1] \o JoinAll(Tail(strs))

\* the fragments' texts as the search sees them, in document order
FragTexts == [i \in 1..Len(spans) |-> SpanText(spans[i].text)]
FragStart(i) == Len(JoinAll(SubSeq(FragTexts, 1, i - 1)))
FragEnd(i) == FragStart(i) + Len(FragTexts[i])

OccursAt(full, pat, p) ==
    /\ p + Len(pat) <= Len(full)
    /\ SubSeq(full, p + 1, p + Len(pat)) = pat
Occurs(full, pat) == \E p \in 0..Len(full) : OccursAt(full, pat, p)
FirstOccurrence(full, pat) ==
    CHOOSE p \in 0..Len(full) :
        /\ OccursAt(full, pat, p)
        /\ \A q \in 0..(p - 1) : ~OccursAt(full, pat, q)

\* [FragStart(i), FragEnd(i)) and [from, to) share at least one character
Intersects(i, from, to) == FragStart(i) < to /\ from < FragEnd(i)

HighlightedExactly(first, len) ==
    \A i \in 1..Len(spans) :
        spans[i].highlighted <=> Intersects(i, first, first + len)

LastQuote == NormalizeQuote(lastCall.quote)
Searched == lastCall.called /\ Len(LastQuote) > 0
Found == Searched /\ Occurs(JoinAll(FragTexts), LastQuote)

(* C11: after highlightQuote found the normalised quote, a fragment is     *)
(* highlighted exactly when its interval in the concatenation of the       *)
(* fragments' texts intersects the FIRST occurrence of the quote.          *)
C11_FirstOccurrenceHighlighted ==
    Found =>
        HighlightedExactly(FirstOccurrence(JoinAll(FragTexts), LastQuote),
                           Len(LastQuote))

\* the quote occurs twice and a fragment that meets only the later
\* occurrence is not highlighted
C11_Witness ==
    /\ Found
    /\ \E later \in 0..Len(JoinAll(FragTexts)), i \in 1..Len(spans) :
          /\ later > FirstOccurrence(JoinAll(FragTexts), LastQuote)
          /\ OccursAt(JoinAll(FragTexts), LastQuote, later)
          /\ Intersects(i, later, later + Len(LastQuote))
          /\ ~spans[i].highlighted
    /\ \E i \in 1..Len(spans) : spans[i].highlighted

FirstHighlighted ==
    CHOOSE i \in 1..Len(spans) :
        /\ spans[i].highlighted
        /\ \A j \in 1..(i - 1) : ~spans[j].highlighted

(* C12: when the quote is found, exactly one fragment is scrolled into     *)
(* view, the first highlighted fragment in document order; when it is not  *)
(* found, no fragment is scrolled into view.                               *)
C12_ScrollsToFirstHighlighted ==
    lastCall.called =>
        IF Found
        THEN scrolls = <<FirstHighlighted>>
        ELSE scrolls = <<>>

\* the match spans several fragments and does not start in the first one
C12_Witness ==
    /\ Found
    /\ Cardinality({i \in 1..Len(spans) : spans[i].highlighted}) >= 2
    /\ ~spans[1].highlighted
    /\ Len(scrolls) = 1

NoneHighlighted == \A i \in 1..Len(spans) : ~spans[i].highlighted
WasHighlighted ==
    \E i \in 1..Len(lastCall.before) : lastCall.before[i]

(* C13: a call whose normalised quote is empty, or does not occur in the   *)
(* concatenated fragment text, completes and leaves no fragment            *)
(* highlighted, whatever was highlighted before, and scrolls nowhere.      *)
C13_AbsentQuoteClears ==
    (lastCall.called /\ ~Found) => (NoneHighlighted /\ scrolls = <<>>)

\* a quote of white space only, on a layer an earlier call had highlighted
C13_Witness ==
    /\ lastCall.called
    /\ Len(lastCall.quote) > 0
    /\ Len(LastQuote) = 0
    /\ WasHighlighted
    /\ NoneHighlighted

\* the three steps of the normalisation, stated position by position
RefLower(s) ==
    [i \in 1..Len(s) |->
        IF \E k \in 1..Len(UpperChars) : UpperChars[k] = s[i]
        THEN LowerChars[CHOOSE k \in 1..Len(UpperChars) : UpperChars[k] = s[i]]
        ELSE s[i]]

RunStarts(s) ==
    LET Starts(i) == ~(s[i] \in WhiteSpace /\ i > 1 /\ s[i - 1] \in WhiteSpace)
    IN  SelectSeq([i \in 1..Len(s) |-> i], Starts)

RefCollapseAt(s, at) ==
    [k \in 1..Len(at) |-> IF s[at[k]] \in WhiteSpace THEN " " ELSE s[at[k]]]

RefCollapse(s) == RefCollapseAt(s, RunStarts(s))

Inked(s) == {i \in 1..Len(s) : s[i] \notin WhiteSpace}

RefTrim(s) ==
    IF Inked(s) = {} THEN <<>>
    ELSE SubSeq(s, CHOOSE i \in Inked(s) : \A j \in Inked(s) : i <= j,
                   CHOOSE i \in Inked(s) : \A j \in Inked(s) : i >= j)

\* the text the search holds for fragment i
MatchedText(i) ==
    SubSeq(lastCall.fullPageText, lastCall.spanMap[i].start + 1,
           lastCall.spanMap[i].end)

QuoteNormalised ==
    lastCall.normalizedQuote = RefTrim(RefCollapse(RefLower(lastCall.quote)))

(* C14 as stated: the quote and each fragment's text go through the same   *)
(* normalisation: lowercase, white space runs collapsed, ends trimmed.     *)
C14_SameNormalisation ==
    Searched =>
        /\ QuoteNormalised
        /\ \A i \in 1..Len(spans) :
              MatchedText(i) = RefTrim(RefCollapse(RefLower(spans[i].text)))

(* C14, amended: the quote is lowercased, collapsed and trimmed; a         *)
(* fragment's text is lowercased and collapsed but not trimmed, and a      *)
(* fragment whose text is empty counts as one space.                       *)
C14_FragmentsNotTrimmed ==
    lastCall.called =>
        /\ QuoteNormalised
        /\ Searched =>
              \A i \in 1..Len(spans) :
                  MatchedText(i) =
                      IF Len(spans[i].text) = 0 THEN <<" ">>
                      ELSE RefCollapse(RefLower(spans[i].text))

\* a quote that needed all three steps is found across a fragment that
\* keeps its trailing space, on a layer with an empty fragment
C14_Witness ==
    /\ Found
    /\ lastCall.quote # RefCollapse(lastCall.quote)
    /\ lastCall.quote # RefLower(lastCall.quote)
    /\ RefCollapse(lastCall.quote) # RefTrim(RefCollapse(lastCall.quote))
    /\ \E i \in 1..Len(spans) :
          /\ spans[i].highlighted
          /\ MatchedText(i) # RefTrim(MatchedText(i))
    /\ \E i \in 1..Len(spans) : Len(spans[i].text) = 0

\* the page's text as drawn: the fragments' own texts, in document order
DrawnText == JoinAll([i \in 1..Len(spans) |-> spans[i].text])

(* C15: a quote that equals a stretch of the page's text up to letter case *)
(* and the amount of white space is found, however the page text is split  *)
(* into fragments.                                                         *)
C15_FoundUpToCaseAndSpace ==
    (Searched /\ IsSubstring(LastQuote, RefCollapse(RefLower(DrawnText))))
        => lastCall.quoteIndex # NotFound

\* the same text layer as renderTextLayer left it, nothing highlighted
Unmarked == [i \in 1..Len(spans) |-> FreshSpan(spans[i].text, spans[i].page)]

(* C17: after any sequence of highlightQuote calls the highlighted         *)
(* fragments are those the last call alone gives on the unmarked page, and *)
(* repeating the last call leaves them unchanged.                          *)
C17_LastCallAlone ==
    lastCall.called =>
        /\ spans = HighlightResult(Unmarked, lastCall.quote).spans
        /\ HighlightResult(spans, lastCall.quote).spans = spans

\* the last call removed an earlier call's highlight and set its own
C17_Witness ==
    /\ Found
    /\ \E i \in 1..Len(spans) : lastCall.before[i] /\ ~spans[i].highlighted
    /\ \E i \in 1..Len(spans) : ~lastCall.before[i] /\ spans[i].highlighted

(***************************************************************************)
(* PdfViewer.renderPage: overlapping asynchronous renders of one document. *)
(* The viewer stays in canvas mode, so the canvas, text layer and          *)
(* container refs are set; no await rejects.                               *)
(***************************************************************************)
\* renderPage calls in flight at once
MaxRenders == 2

\* pdfDoc.numPages
NumPages == 2

\* the texts page.getTextContent() gives renderTextLayer to draw
PageFragments(p) ==
    IF p = 1 THEN << <<"a">>, <<" ", "b">> >> ELSE << <<"a", "b">> >>

\* the spans renderTextLayer appends for page p
PageSpans(p) ==
    [i \in 1..Len(PageFragments(p)) |-> FreshSpan(PageFragments(p)[i], p)]

\* the citationQuote prop: undefined, or a citation's quote
ViewerQuotes == { <<>>, <<"a", "b">>, <<"a", " ", "b">> }

\* renderPage(pageNum, ...) up to its first await, with its closure's quote
StartRender(pageNum, quote) ==
    IF pageNum < 1 \/ pageNum > NumPages THEN <<>>
    ELSE <<[page |-> pageNum, quote |-> quote, pc |-> "getPage"]>>

RemoveAt(s, i) == SubSeq(s, 1, i - 1) \o SubSeq(s, i + 1, Len(s))

\* setCurrentPage(newPage) followed by the effect of lines 186-190
SetCurrentPage(newPage) ==
    /\ newPage # currentPage
    /\ Len(renders) < MaxRenders
    /\ currentPage' = newPage
    /\ renders' = renders \o StartRender(newPage, citationQuote)
    /\ UNCHANGED <<spans, scrolls, lastCall, citationQuote, layoutVars, sessionVars, pdfDoc,
                   citationVars, appVars>>

\* goToNextPage
GoToNextPage == SetCurrentPage(Min(NumPages, currentPage + 1))

\* goToPrevPage
GoToPrevPage == SetCurrentPage(Max(1, currentPage - 1))

\* the renders a change of the pageJump and citationQuote props starts: the
\* effect runs with the new renderPage and the old page, and runs again
\* once the pageJump effect has set the page
JumpRenders(page, quote) ==
    (IF quote # citationQuote THEN StartRender(currentPage, quote) ELSE <<>>)
    \o (IF page # currentPage THEN StartRender(page, quote) ELSE <<>>)

\* a citation of this document is activated: new pageJump and citationQuote
CitationJump ==
    \E page \in 1..NumPages, quote \in ViewerQuotes :
        /\ JumpRenders(page, quote) # <<>>
        /\ Len(renders) + Len(JumpRenders(page, quote)) <= MaxRenders
        /\ currentPage' = page
        /\ citationQuote' = quote
        /\ renders' = renders \o JumpRenders(page, quote)
        /\ UNCHANGED <<spans, scrolls, lastCall, layoutVars, sessionVars, pdfDoc, citationVars,
                       appVars>>

\* await pdfDoc.getPage(pageNum) resumes; the canvas is sized
PageReady ==
    \E i \in 1..Len(renders) :
        /\ renders[i].pc = "getPage"
        /\ renders' = [renders EXCEPT ![i].pc = "render"]
        /\ UNCHANGED <<spans, scrolls, lastCall, currentPage, citationQuote,
                       layoutVars, sessionVars, pdfDoc, citationVars, appVars>>

\* await page.render(renderContext).promise resumes
CanvasRendered ==
    \E i \in 1..Len(renders) :
        /\ renders[i].pc = "render"
        /\ renders' = [renders EXCEPT ![i].pc = "getTextContent"]
        /\ UNCHANGED <<spans, scrolls, lastCall, currentPage, citationQuote,
                       layoutVars, sessionVars, pdfDoc, citationVars, appVars>>

\* await page.getTextContent() resumes: the text layer is emptied and
\* renderTextLayer is started; the library appends the spans either at once
\* or before its promise resolves
TextContentReady ==
    \E i \in 1..Len(renders), atOnce \in BOOLEAN :
        /\ renders[i].pc = "getTextContent"
        /\ spans' = IF atOnce THEN PageSpans(renders[i].page) ELSE <<>>
        /\ renders' = [renders EXCEPT
                          ![i].pc = IF atOnce THEN "highlight"
                                    ELSE "renderTextLayer"]
        /\ UNCHANGED <<scrolls, lastCall, currentPage, citationQuote,
                       layoutVars, sessionVars, pdfDoc, citationVars, appVars>>

\* renderTextLayer appends the page's spans to the container
TextLayerAppended ==
    \E i \in 1..Len(renders) :
        /\ renders[i].pc = "renderTextLayer"
        /\ spans' = spans \o PageSpans(renders[i].page)
        /\ renders' = [renders EXCEPT ![i].pc = "highlight"]
        /\ UNCHANGED <<scrolls, lastCall, currentPage, citationQuote,
                       layoutVars, sessionVars, pdfDoc, citationVars, appVars>>

\* await renderTextLayer(...).promise resumes: the quote of this call's
\* closure, if any, is highlighted in the text layer as it is now
RenderDone ==
    \E i \in 1..Len(renders) :
        /\ renders[i].pc = "highlight"
        /\ IF Len(renders[i].quote) > 0
           THEN SetHighlight(HighlightResult(spans, renders[i].quote))
           ELSE UNCHANGED <<spans, scrolls, lastCall>>
        /\ renders' = RemoveAt(renders, i)
        /\ UNCHANGED <<currentPage, citationQuote, layoutVars, sessionVars, pdfDoc, citationVars,
                       appVars>>

ViewerNext ==
    \/ GoToNextPage
    \/ GoToPrevPage
    \/ CitationJump
    \/ PageReady
    \/ CanvasRendered
    \/ TextContentReady
    \/ TextLayerAppended
    \/ RenderDone

\* the document has just loaded: page 1 is being rendered
InitViewer ==
    /\ LayoutIdle
    /\ CitationIdle
    /\ AppIdle
    /\ SessionIdle
    /\ pdfDoc = TRUE
    /\ spans = <<>>
    /\ scrolls = <<>>
    /\ lastCall = NoCall
    /\ currentPage = 1
    /\ citationQuote \in ViewerQuotes
    /\ renders = StartRender(1, citationQuote)

SpecViewer == InitViewer /\ [][ViewerNext]_vars

\* what one render of the displayed page, on its own, leaves in the layer
SettledLayer ==
    IF Len(citationQuote) > 0
    THEN HighlightResult(PageSpans(currentPage), citationQuote).spans
    ELSE PageSpans(currentPage)

(* C16: once no render is in flight, the text layer holds exactly the      *)
(* fragments of the displayed page, each once, and the highlight is the    *)
(* one the current quote gives on that page's fragments.                   *)
C16_SettledLayerIsCurrentPage == (renders = <<>>) => (spans = SettledLayer)

(***************************************************************************)
(* Citation controls of a rendered message are activated.                  *)
(***************************************************************************)
MobileTabs == {"library", "pdf", "chat"}

\* App.handleCitationClick: documents.find((doc, i) => i === docIndex - 1)
HandleCitationClick(docIndex, page, quote) ==
    IF docIndex - 1 >= 0 /\ docIndex - 1 < numDocuments
    THEN /\ activeDocument' = docIndex
         /\ citationTarget' = [set |-> TRUE, docId |-> docIndex,
                               page |-> page, quote |-> quote]
         /\ mobileTab' = "pdf"
         /\ error' = "none"
    ELSE /\ error' = "missing"
         /\ UNCHANGED <<activeDocument, citationTarget, mobileTab>>

\* Message.handleClick on a .citation-btn: if (docIndex && page)
HandleClick(button) ==
    IF button.docIndex # 0 /\ button.page # 0
    THEN HandleCitationClick(button.docIndex, button.page, button.quote)
    ELSE UNCHANGED <<activeDocument, citationTarget, mobileTab, error>>

\* a click on one of the message's citation controls
CitationClick ==
    /\ \E i \in 1..Len(html) :
          /\ html[i].kind = "button"
          /\ HandleClick(html[i])
          /\ activated' = [done |-> TRUE, docIndex |-> html[i].docIndex,
                           page |-> html[i].page,
                           before |-> <<activeDocument, citationTarget,
                                        mobileTab>>]
    /\ UNCHANGED <<layoutVars, sessionVars, citationVars, viewerVars>>

\* the notice's close button: setError(null)
DismissError ==
    /\ error # "none"
    /\ error' = "none"
    /\ activated' = NoActivation
    /\ UNCHANGED <<activeDocument, citationTarget, mobileTab, layoutVars, sessionVars,
                   citationVars, viewerVars>>

\* the mobile navigation bar
SwitchTab ==
    /\ \E tab \in MobileTabs \ {mobileTab} : mobileTab' = tab
    /\ activated' = NoActivation
    /\ UNCHANGED <<activeDocument, citationTarget, error, layoutVars, sessionVars,
                   citationVars, viewerVars>>

\* handleDocumentSelect
DocumentSelect ==
    /\ \E doc \in 1..numDocuments : activeDocument' = doc
    /\ citationTarget' = NoTarget
    /\ mobileTab' = "pdf"
    /\ activated' = NoActivation
    /\ UNCHANGED <<error, layoutVars, sessionVars, citationVars, viewerVars>>

ClickNext ==
    \/ CitationClick
    \/ DismissError
    \/ SwitchTab
    \/ DocumentSelect

ParsedIs(r) ==
    /\ tokens = r.tokens
    /\ citationMap = r.citationMap
    /\ html = r.html

\* a finished response is on screen, rendered against the current library
InitClick ==
    /\ LayoutIdle
    /\ ViewerIdle
    /\ SessionIdle
    /\ numDocuments \in 0..MaxDocuments
    /\ response \in Responses
    /\ messageText = response
    /\ streamPc = "done"
    /\ \E sfx \in [1..Len(Matches(messageText)) -> Suffixes] :
          ParsedIs(RenderMatches(messageText, Matches(messageText), sfx,
                                 numDocuments))
    /\ activeDocument = IF numDocuments > 0 THEN 1 ELSE 0
    /\ citationTarget = NoTarget
    /\ mobileTab = "chat"
    /\ error = "none"
    /\ activated = NoActivation

SpecClick == InitClick /\ [][ClickNext]_vars

(* C18: activating a citation control whose docIndex names no document of  *)
(* the library (0, or greater than the library's size) sets the            *)
(* missing-document notice and leaves the active document, the citation    *)
(* target and the mobile tab as they were.                                 *)
C18_MissingDocumentNotice ==
    (activated.done /\ ~InLibrary(activated.docIndex)) =>
        /\ error = "missing"
        /\ <<activeDocument, citationTarget, mobileTab>> = activated.before

(***************************************************************************)
(* Determinism of the citation rendering.                                  *)
(***************************************************************************)
\* every draw of suffixes for the matches ms renders text to h
RendersTo(text, ms, numDocs, h) ==
    \A sfx \in [1..Len(ms) -> Suffixes] :
        RenderMatches(text, ms, sfx, numDocs).html = h

(* C21: rendering the same text against the same library gives the same    *)
(* output (text and citation controls, fields and positions), whatever     *)
(* random suffixes the placeholders get in a run.                          *)
C21_SameOutputForAllSuffixes ==
    RendersTo(messageText, Matches(messageText), numDocuments, html)

(***************************************************************************)
(* App and PdfViewer together: citation jumps, the file load, navigation   *)
(* and App re-renders.  Each renderPage call here runs to completion       *)
(* before the next event.  The library holds MaxDocuments documents of     *)
(* NumPages pages; a response is streaming in the chat.                    *)
(***************************************************************************)
\* the quotes of the citation controls on screen
JumpQuotes == { <<>>, <<"a">> }

\* the citation controls of the messages on screen
JumpButtons ==
    { ButtonEl([docIndex |-> d, page |-> p, quote |-> q], IsValid(d, numDocuments)) :
        d \in 1..(MaxDocuments + 1), p \in 0..(NumPages + 1), q \in JumpQuotes }

\* the text layer with what highlightQuote last did to it
Layer == [spans |-> spans, scrolls |-> scrolls, call |-> lastCall]
NoLayer == [spans |-> <<>>, scrolls |-> <<>>, call |-> NoCall]

\* renderPage(pageNum, ...) run alone on the layer, with its closure's quote
Drawn(layer, pageNum, quote) ==
    IF pageNum < 1 \/ pageNum > NumPages THEN layer
    ELSE IF Len(quote) > 0 THEN HighlightResult(PageSpans(pageNum), quote)
    ELSE [layer EXCEPT !.spans = PageSpans(pageNum)]

\* pageJump and citationQuote as App passes them to the viewer of document act
HasJump(act, target) == target.set /\ target.docId = act
QuoteProp(act, target) == IF HasJump(act, target) THEN target.quote ELSE <<>>

\* the effect of lines 186-190 after a render of the mounted viewer in which
\* the page became page and the quote became quote: renderPage runs for the
\* old page when the quote (and so renderPage) changed, then for the new page
Redrawn(page, quote) ==
    IF ~pdfDoc THEN Layer
    ELSE IF page # currentPage
    THEN Drawn(IF quote # citationQuote
               THEN Drawn(Layer, currentPage, quote) ELSE Layer,
               page, quote)
    ELSE IF quote # citationQuote THEN Drawn(Layer, page, quote)
    ELSE Layer

\* the viewer's state becomes: page, quote, loaded, layer
SetViewer(page, quote, loaded, layer) ==
    /\ currentPage' = page
    /\ citationQuote' = quote
    /\ pdfDoc' = loaded
    /\ SetHighlight(layer)
    /\ UNCHANGED renders

\* App renders with active document act and citation target: the viewer is
\* unmounted (no active document), mounted anew (key changed: state reset,
\* then the pageJump effect), or updated; pageJump is a new object in every
\* App render, so the effect of lines 31-36 runs again each time
AppRenders(act, target) ==
    IF act = 0 THEN SetViewer(1, <<>>, FALSE, NoLayer)
    ELSE IF act # activeDocument
    THEN SetViewer(IF HasJump(act, target) THEN target.page ELSE 1,
                   QuoteProp(act, target), FALSE, NoLayer)
    ELSE SetViewer(IF HasJump(act, target) THEN target.page ELSE currentPage,
                   QuoteProp(act, target), pdfDoc,
                   Redrawn(IF HasJump(act, target) THEN target.page
                           ELSE currentPage,
                           QuoteProp(act, target)))

\* the click reaches handleCitationClick and finds its document
Opens(button) ==
    button.docIndex # 0 /\ button.page # 0 /\ InLibrary(button.docIndex)

\* a citation control is clicked; App renders when its state changed (a new
\* citationTarget always is a change: it carries a new ts)
ActivateCitation ==
    /\ \E button \in JumpButtons :
          /\ HandleClick(button)
          /\ activated' = [done |-> TRUE, docIndex |-> button.docIndex,
                           page |-> button.page,
                           before |-> <<activeDocument, citationTarget,
                                        mobileTab>>]
          /\ IF Opens(button) \/ error' # error
             THEN AppRenders(activeDocument', citationTarget')
             ELSE UNCHANGED viewerVars
    /\ UNCHANGED <<layoutVars, citationVars, sessionVars>>

\* loadPdf's onload: setPdfDoc(doc); setCurrentPage(1); then the page is drawn
LoadPdfDone ==
    /\ activeDocument # 0
    /\ ~pdfDoc
    /\ SetViewer(1, citationQuote, TRUE, Drawn(Layer, 1, citationQuote))
    /\ UNCHANGED <<layoutVars, citationVars, appVars, sessionVars>>

\* setCurrentPage(newPage) in the viewer, and the page drawn
ShowPage(newPage) ==
    /\ activeDocument # 0
    /\ pdfDoc
    /\ newPage # currentPage
    /\ SetViewer(newPage, citationQuote, pdfDoc,
                 Drawn(Layer, newPage, citationQuote))
    /\ activated' = NoActivation
    /\ UNCHANGED <<activeDocument, citationTarget, mobileTab, error,
                   layoutVars, citationVars, sessionVars>>

\* goToNextPage (button or arrow key)
NextPageShown == ShowPage(Min(NumPages, currentPage + 1))

\* goToPrevPage (button or arrow key)
PrevPageShown == ShowPage(Max(1, currentPage - 1))

\* handlePageSubmit with a number in range
PageSubmitted ==
    \E pageNum \in 1..NumPages : ShowPage(pageNum)

\* the notice is closed: setError(null), App renders
ErrorDismissed ==
    /\ error # "none"
    /\ error' = "none"
    /\ activated' = NoActivation
    /\ AppRenders(activeDocument, citationTarget)
    /\ UNCHANGED <<activeDocument, citationTarget, mobileTab, layoutVars,
                   citationVars, sessionVars>>

\* a chunk of the response arrives: setMessages, App renders
ChunkShown ==
    /\ streamPc = "streaming"
    /\ Len(messageText) < Len(response)
    /\ messageText' = SubSeq(response, 1, Len(messageText) + 1)
    /\ Rerender(SubSeq(response, 1, Len(messageText) + 1), numDocuments)
    /\ AppRenders(activeDocument, citationTarget)
    /\ UNCHANGED <<numDocuments, response, streamPc, layoutVars, appVars,
                   sessionVars>>

\* handleDocumentSelect, App renders
DocumentClicked ==
    /\ \E doc \in 1..numDocuments :
          /\ activeDocument' = doc
          /\ AppRenders(doc, NoTarget)
    /\ citationTarget' = NoTarget
    /\ mobileTab' = "pdf"
    /\ activated' = NoActivation
    /\ UNCHANGED <<error, layoutVars, citationVars, sessionVars>>

JumpNext ==
    \/ ActivateCitation
    \/ LoadPdfDone
    \/ NextPageShown
    \/ PrevPageShown
    \/ PageSubmitted
    \/ ErrorDismissed
    \/ ChunkShown
    \/ DocumentClicked

\* document 1 of the library is active and loading; a reply is streaming
InitJump ==
    /\ LayoutIdle
    /\ SessionIdle
    /\ numDocuments = MaxDocuments
    /\ response = <<"a", "a">>
    /\ messageText = <<>>
    /\ streamPc = "streaming"
    /\ tokens = <<>>
    /\ citationMap = <<>>
    /\ html = <<>>
    /\ activeDocument = 1
    /\ citationTarget = NoTarget
    /\ mobileTab = "chat"
    /\ error = "none"
    /\ activated = NoActivation
    /\ spans = <<>>
    /\ scrolls = <<>>
    /\ lastCall = NoCall
    /\ currentPage = 1
    /\ citationQuote = <<>>
    /\ renders = <<>>
    /\ pdfDoc = FALSE

SpecJump == InitJump /\ [][JumpNext]_vars

\* the step that sets pdfDoc: in SpecJump these are the LoadPdfDone steps
PdfLoads == activeDocument # 0 /\ ~pdfDoc /\ pdfDoc' = TRUE

\* the step that shows a chunk: in SpecJump these are the ChunkShown steps
ChunkComes ==
    /\ streamPc = "streaming"
    /\ Len(messageText) < Len(response)
    /\ messageText' = SubSeq(response, 1, Len(messageText) + 1)

\* the file load of a mounted viewer completes; the reply arrives in full
SpecJumpFair ==
    SpecJump /\ WF_pdfDoc(PdfLoads) /\ WF_messageText(ChunkComes)

(***************************************************************************)
(* Citation jumps and navigation.                                          *)
(***************************************************************************)
\* the citation target is page p of document d, and d is the active document
Targeted(d, p) ==
    /\ citationTarget.set
    /\ citationTarget.docId = d
    /\ citationTarget.page = p
    /\ activeDocument = d

\* the last thing the user did was to activate a citation of page p of d
JustCited(d, p) ==
    /\ activated.done
    /\ activated.docIndex = d
    /\ activated.page = p
    /\ Targeted(d, p)

(* C23: after a valid citation to page p of document d is activated, the   *)
(* viewer eventually shows page p of the loaded document d (unless the     *)
(* user does something else first).                                        *)
C23_CitedPageDisplayed ==
    \A d \in 1..MaxDocuments, p \in 1..NumPages :
        JustCited(d, p) ~> ((pdfDoc /\ currentPage = p) \/ ~JustCited(d, p))

(* C24: an App render caused by a streamed chunk or by closing the notice  *)
(* leaves the viewer's current page as it is.                              *)
C24_PageKeptAcrossAppRenders ==
    [][(ChunkShown \/ ErrorDismissed) => currentPage' = currentPage]_vars

\* the user goes from the page the citation names to another page
LeavesCitedPage ==
    /\ HasJump(activeDocument, citationTarget)
    /\ currentPage = citationTarget.page
    /\ NextPageShown \/ PrevPageShown \/ PageSubmitted

(* C27: when the user navigates from the cited page to another page of the *)
(* document, no fragment of the newly drawn page is highlighted.           *)
C27_HighlightOnlyOnCitedPage ==
    [][LeavesCitedPage => \A i \in 1..Len(spans') : ~spans'[i].highlighted]_vars

(* C28: once the document is loaded, the current page is one of its pages. *)
C28_CurrentPageInRange ==
    pdfDoc => (1 <= currentPage /\ currentPage <= NumPages)

(***************************************************************************)
(* The library: uploads, deletion and clearing are asynchronous handlers   *)
(* that read App's state when they start and write it when they finish.    *)
(* A document is its id; activeDocument is an id, 0 for null.              *)
(***************************************************************************)
\* library handlers in flight at once
MaxHandlers == 2
\* files chosen in one upload
MaxFiles == 1
\* documents ever created
MaxDocId == 2

\* the ids of the documents in a list
DocIds(docs) == { docs[i] : i \in 1..Len(docs) }

\* docs.filter(doc => keep.has(doc.id))
RECURSIVE FilterDocs(_, _)
FilterDocs(docs, keep) ==
    IF docs = <<>> THEN <<>>
    ELSE (IF Head(docs) \in keep THEN <<Head(docs)>> ELSE <<>>)
         \o FilterDocs(Tail(docs), keep)

\* handleDeleteSelected keeps every document
RemainingAll(docs, sel) == docs

\* documents.filter(doc => !selectedDocIds.has(doc.id))
Remaining(docs, sel) == FilterDocs(docs, DocIds(docs) \ sel)

\* a message of the chat; a missing isStreaming is falsy
ChatMessage(id, sender, text, streaming) ==
    [id |-> id, sender |-> sender, text |-> text, isStreaming |-> streaming]

\* saveMessages: messages.map(m => ({ ...m, isStreaming: false }))
CleanMessages(msgs) ==
    [i \in 1..Len(msgs) |-> [msgs[i] EXCEPT !.isStreaming = FALSE]]

\* setMessages(msgs) and the save effect of the render that follows
SetMessages(msgs) ==
    /\ messages' = msgs
    /\ stored' = IF isRestoring THEN stored ELSE CleanMessages(msgs)

\* a handler holding the state its closure captured
Handler(kind, left) ==
    [kind |-> kind, docs |-> documents, sel |-> selectedDocIds,
     active |-> activeDocument, noMessages |-> (messages = <<>>),
     left |-> left]

\* handleFileChange is called with 1..MaxFiles files: setError(null), copies
UploadStarted(limit) ==
    /\ Len(handlers) < limit
    /\ \E n \in 1..MaxFiles :
          handlers' = Append(handlers, Handler("upload", n))
    /\ error' = "none"
    /\ UNCHANGED <<documents, selectedDocIds, db, context, nextId, dbFault,
                   activeDocument, citationTarget, mobileTab, activated,
                   chatVars, layoutVars, citationVars, viewerVars>>

\* one file of an upload is parsed and saved: put, push, add
FileStored ==
    /\ nextId <= MaxDocId
    /\ \E h \in 1..Len(handlers) :
          /\ handlers[h].kind = "upload"
          /\ handlers[h].left > 0
          /\ handlers' = [handlers EXCEPT
                ![h].docs = Append(@, nextId),
                ![h].sel = @ \cup {nextId},
                ![h].left = @ - 1]
    /\ db' = db \cup {nextId}
    /\ nextId' = nextId + 1
    /\ UNCHANGED <<documents, selectedDocIds, context, dbFault, appVars,
                   chatVars, layoutVars, citationVars, viewerVars>>

\* one file of an upload is not a PDF, or parsePdf or the put rejects
FileSkipped ==
    /\ \E h \in 1..Len(handlers) :
          /\ handlers[h].kind = "upload"
          /\ handlers[h].left > 0
          /\ handlers' = [handlers EXCEPT ![h].left = @ - 1]
    /\ error' = "failed"
    /\ UNCHANGED <<documents, selectedDocIds, db, context, nextId, dbFault,
                   activeDocument, citationTarget, mobileTab, activated,
                   chatVars, layoutVars, citationVars, viewerVars>>

\* the loop of an upload is over: the copies become the state
UploadFinished ==
    /\ \E h \in 1..Len(handlers) :
          /\ handlers[h].kind = "upload"
          /\ handlers[h].left = 0
          /\ documents' = handlers[h].docs
          /\ selectedDocIds' = handlers[h].sel
          /\ activeDocument' =
                IF handlers[h].active = 0 /\ Len(handlers[h].docs) > 0
                THEN handlers[h].docs[1] ELSE activeDocument
          /\ IF handlers[h].noMessages /\ Len(handlers[h].docs) > 0
             THEN SetMessages(<<ChatMessage(now, "ai", <<"r">>, FALSE)>>)
             ELSE UNCHANGED <<messages, stored>>
          /\ handlers' = RemoveAt(handlers, h)
    /\ UNCHANGED <<db, context, nextId, dbFault, citationTarget, mobileTab,
                   error, activated, isLoading, isRestoring, hydrate,
                   requests, now, layoutVars, citationVars, viewerVars>>

\* handleDeleteSelected is called and confirmed with a selection
DeleteStarted(limit) ==
    /\ Len(handlers) < limit
    /\ selectedDocIds # {}
    /\ handlers' = Append(handlers, Handler("delete", 0))
    /\ UNCHANGED <<documents, selectedDocIds, db, context, nextId, dbFault,
                   appVars, chatVars, layoutVars, citationVars, viewerVars>>

\* every delete request succeeded: filter, clear the selection, move the
\* active document if it was deleted
DeleteFinished ==
    /\ \E h \in 1..Len(handlers) :
          /\ handlers[h].kind = "delete"
          /\ db' = db \ handlers[h].sel
          /\ documents' = Remaining(handlers[h].docs, handlers[h].sel)
          /\ selectedDocIds' = {}
          /\ activeDocument' =
                IF handlers[h].active # 0
                   /\ handlers[h].active \in handlers[h].sel
                THEN IF Len(documents') > 0 THEN documents'[1] ELSE 0
                ELSE activeDocument
          /\ handlers' = RemoveAt(handlers, h)
    /\ UNCHANGED <<context, nextId, dbFault, citationTarget, mobileTab, error,
                   activated, chatVars, layoutVars, citationVars, viewerVars>>

\* a delete request was rejected (some of the others may have succeeded):
\* the catch sets the notice
DeleteFailed ==
    /\ \E h \in 1..Len(handlers) :
          /\ handlers[h].kind = "delete"
          /\ \E gone \in SUBSET handlers[h].sel :
                /\ gone # handlers[h].sel
                /\ db' = db \ gone
          /\ handlers' = RemoveAt(handlers, h)
    /\ error' = "failed"
    /\ dbFault' = TRUE
    /\ UNCHANGED <<documents, selectedDocIds, context, nextId,
                   activeDocument, citationTarget, mobileTab, activated,
                   chatVars, layoutVars, citationVars, viewerVars>>

\* handleClearLibrary is called and confirmed
ClearStarted(limit) ==
    /\ Len(handlers) < limit
    /\ handlers' = Append(handlers, Handler("clear", 0))
    /\ UNCHANGED <<documents, selectedDocIds, db, context, nextId, dbFault,
                   appVars, chatVars, layoutVars, citationVars, viewerVars>>

\* the store is cleared: clearMessages, then everything is reset
ClearFinished ==
    /\ \E h \in 1..Len(handlers) :
          /\ handlers[h].kind = "clear"
          /\ handlers' = RemoveAt(handlers, h)
    /\ db' = {}
    /\ documents' = <<>>
    /\ SetMessages(<<>>)
    /\ selectedDocIds' = {}
    /\ activeDocument' = 0
    /\ UNCHANGED <<context, nextId, dbFault, citationTarget, mobileTab, error,
                   activated, isLoading, isRestoring, hydrate, requests, now,
                   layoutVars, citationVars, viewerVars>>

\* FileManager.handleCheckboxChange on a listed document
CheckboxChanged(limit) ==
    /\ Len(handlers) < limit
    /\ \E i \in 1..Len(documents) :
          selectedDocIds' =
             IF documents[i] \in selectedDocIds
             THEN selectedDocIds \ {documents[i]}
             ELSE selectedDocIds \cup {documents[i]}
    /\ UNCHANGED <<documents, db, handlers, context, nextId, dbFault, appVars,
                   chatVars, layoutVars, citationVars, viewerVars>>

\* FileManager.handleSelectAll
SelectAllChanged(limit) ==
    /\ Len(handlers) < limit
    /\ documents # <<>>
    /\ \E isChecked \in BOOLEAN :
          /\ selectedDocIds' = IF isChecked THEN DocIds(documents) ELSE {}
          /\ selectedDocIds' # selectedDocIds
    /\ UNCHANGED <<documents, db, handlers, context, nextId, dbFault, appVars,
                   chatVars, layoutVars, citationVars, viewerVars>>

\* handleDocumentSelect on a listed document, no handler in flight
LibraryDocumentClicked ==
    /\ handlers = <<>>
    /\ \E i \in 1..Len(documents) : activeDocument' = documents[i]
    /\ citationTarget' = NoTarget
    /\ mobileTab' = "pdf"
    /\ activated' = NoActivation
    /\ UNCHANGED <<error, libraryVars, chatVars, layoutVars, citationVars,
                   viewerVars>>

\* handleCitationClick(docIndex, page, quote) on the library
OpenCitation(docIndex, page, quote) ==
    IF docIndex - 1 >= 0 /\ docIndex - 1 < Len(documents)
       THEN /\ activeDocument' = documents[docIndex]
            /\ citationTarget' = [set |-> TRUE, docId |-> documents[docIndex],
                                  page |-> page, quote |-> quote]
            /\ mobileTab' = "pdf"
            /\ error' = "none"
       ELSE /\ error' = "missing"
            /\ UNCHANGED <<activeDocument, citationTarget, mobileTab>>

\* a citation control of an earlier reply is clicked, no handler in flight
LibraryCitationClicked ==
    /\ handlers = <<>>
    /\ \E docIndex \in 1..(MaxDocId + 1) : OpenCitation(docIndex, 1, <<>>)
    /\ UNCHANGED <<activated, libraryVars, chatVars, layoutVars, citationVars,
                   viewerVars>>

\* uploads, deletions, clearing and selection changes; an event arrives
\* while fewer than limit handlers are in flight
HandlersNext(limit) ==
    \/ UploadStarted(limit)
    \/ FileStored
    \/ FileSkipped
    \/ UploadFinished
    \/ DeleteStarted(limit)
    \/ DeleteFinished
    \/ DeleteFailed
    \/ ClearStarted(limit)
    \/ ClearFinished
    \/ CheckboxChanged(limit)
    \/ SelectAllChanged(limit)

\* the library's events, each handled to completion before the next
SequentialNext ==
    \/ HandlersNext(1)
    \/ LibraryDocumentClicked
    \/ LibraryCitationClicked

\* a new session: nothing uploaded, nothing stored
InitLibrary ==
    /\ LayoutIdle
    /\ CitationIdle
    /\ ViewerIdle
    /\ AppIdle
    /\ SessionIdle

\* each handler completes before the next event
SpecLibrary == InitLibrary /\ [][SequentialNext]_vars

\* uploads, deletions and clearing start while others are awaiting
OverlapNext == HandlersNext(MaxHandlers)
SpecOverlap == InitLibrary /\ [][OverlapNext]_vars

(***************************************************************************)
(* The library against its store.                                          *)
(***************************************************************************)
(* C25: once every handler has finished (and no storage request was        *)
(* rejected), the library holds exactly the stored documents: none that is *)
(* stored is missing, none that was deleted is back.                       *)
C25_LibraryIsStore ==
    (handlers = <<>> /\ ~dbFault) => DocIds(documents) = db

\* the active document is null or listed; the selected ids are listed
LibraryConsistent ==
    /\ activeDocument = 0 \/ activeDocument \in DocIds(documents)
    /\ selectedDocIds \subseteq DocIds(documents)

\* a delete finishes: nothing is selected, none of its documents is listed
DeleteClean ==
    DeleteFinished =>
        /\ selectedDocIds' = {}
        /\ DocIds(documents') \cap Head(handlers).sel = {}

MaxChunks == 1
\* the clock's last reading at which a request is sent
MaxClock == 2

\* prev.map(msg => msg.id === aiMessageId ? { ...msg, text } : msg)
WithText(msgs, id, text) ==
    [i \in 1..Len(msgs) |->
        IF msgs[i].id = id THEN [msgs[i] EXCEPT !.text = text] ELSE msgs[i]]

\* prev.map(msg => msg.id === aiMessageId ? { ...msg, isStreaming: false } : msg)
NotStreaming(msgs, id) ==
    [i \in 1..Len(msgs) |->
        IF msgs[i].id = id THEN [msgs[i] EXCEPT !.isStreaming = FALSE]
        ELSE msgs[i]]

\* the catch of handleSendMessage: the notice is appended, streaming ends
Interrupted(msgs, id) ==
    [i \in 1..Len(msgs) |->
        IF msgs[i].id = id
        THEN [msgs[i] EXCEPT !.text = @ \o <<"!">>, !.isStreaming = FALSE]
        ELSE msgs[i]]

\* the catch of handleSummarize: console.error only
OnlyLogged(msgs, id) == msgs

\* handleSendMessage / handleSummarize up to the stream: the user's message
\* and the placeholder are appended, the selected documents are the context
Requested(kind) ==
    /\ hydrate = "done"
    /\ ~isLoading
    /\ now <= MaxClock
    /\ FilterDocs(documents, selectedDocIds) # <<>>
    /\ SetMessages(messages \o <<ChatMessage(now, "user", <<"q">>, FALSE),
                                 ChatMessage(now + 1, "ai", <<>>, TRUE)>>)
    /\ isLoading' = TRUE
    /\ requests' = Append(requests, [kind |-> kind, id |-> now + 1,
                                     text |-> <<>>])
    /\ context' = [sent |-> TRUE, docs |-> FilterDocs(documents, selectedDocIds)]
    /\ \E passed \in 1..2 : now' = now + passed
    /\ activated' = NoActivation

\* handleSendMessage
SendRequested ==
    /\ Requested("send")
    /\ UNCHANGED <<documents, selectedDocIds, db, handlers, nextId, dbFault,
                   isRestoring, hydrate, activeDocument, citationTarget,
                   mobileTab, error, layoutVars, citationVars, viewerVars>>

\* handleSummarize: also setMobileTab('chat')
SummarizeRequested ==
    /\ Requested("summarize")
    /\ mobileTab' = "chat"
    /\ UNCHANGED <<documents, selectedDocIds, db, handlers, nextId, dbFault,
                   isRestoring, hydrate, activeDocument, citationTarget,
                   error, layoutVars, citationVars, viewerVars>>

\* the stream of a request yields a chunk
ChunkArrived ==
    /\ \E r \in 1..Len(requests) :
          /\ Len(requests[r].text) < MaxChunks
          /\ requests' = [requests EXCEPT ![r].text = Append(@, "c")]
          /\ SetMessages(WithText(messages, requests[r].id,
                                  Append(requests[r].text, "c")))
    /\ UNCHANGED <<libraryVars, appVars, isLoading, isRestoring, hydrate, now,
                   layoutVars, citationVars, viewerVars>>

\* the stream of a request is exhausted
StreamEnded ==
    /\ \E r \in 1..Len(requests) :
          /\ SetMessages(NotStreaming(messages, requests[r].id))
          /\ requests' = RemoveAt(requests, r)
    /\ isLoading' = FALSE
    /\ UNCHANGED <<libraryVars, appVars, isRestoring, hydrate, now,
                   layoutVars, citationVars, viewerVars>>

\* the stream of a request throws: catch, then finally
StreamThrew ==
    /\ \E r \in 1..Len(requests) :
          /\ SetMessages(IF requests[r].kind = "send"
                         THEN Interrupted(messages, requests[r].id)
                         ELSE OnlyLogged(messages, requests[r].id))
          /\ requests' = RemoveAt(requests, r)
    /\ isLoading' = FALSE
    /\ UNCHANGED <<libraryVars, appVars, isRestoring, hydrate, now,
                   layoutVars, citationVars, viewerVars>>

\* the page is reloaded: App's state is the initial one again, the stores
\* and the clock are not
Reloaded ==
    /\ hydrate = "done"
    /\ documents' = <<>>
    /\ selectedDocIds' = {}
    /\ handlers' = <<>>
    /\ context' = NoContext
    /\ activeDocument' = 0
    /\ citationTarget' = NoTarget
    /\ mobileTab' = "library"
    /\ error' = "none"
    /\ activated' = NoActivation
    /\ messages' = <<>>
    /\ isLoading' = FALSE
    /\ isRestoring' = TRUE
    /\ hydrate' = "loading"
    /\ requests' = <<>>
    /\ UNCHANGED <<db, nextId, dbFault, stored, now, layoutVars, citationVars,
                   viewerVars>>

\* getAll() gives the records in key order
RECURSIVE StoredDocs(_, _)
StoredDocs(ids, from) ==
    IF from > MaxDocId THEN <<>>
    ELSE (IF from \in ids THEN <<from>> ELSE <<>>) \o StoredDocs(ids, from + 1)

\* hydrate: the documents and the messages are loaded and set, then
\* setIsRestoring(false); the save effect runs on the restored list
HydrateLoaded ==
    /\ hydrate = "loading"
    /\ IF db # {}
       THEN /\ documents' = StoredDocs(db, 1)
            /\ selectedDocIds' = db
            /\ activeDocument' = StoredDocs(db, 1)[1]
       ELSE UNCHANGED <<documents, selectedDocIds, activeDocument>>
    /\ messages' = IF Len(stored) > 0 THEN stored ELSE messages
    /\ isRestoring' = FALSE
    /\ stored' = CleanMessages(messages')
    /\ hydrate' = "done"
    /\ UNCHANGED <<db, handlers, context, nextId, dbFault, citationTarget,
                   mobileTab, error, activated, isLoading, requests, now,
                   layoutVars, citationVars, viewerVars>>

\* hydrate: loadDocumentsFromDB rejects, loadMessages is not reached; the
\* finally sets isRestoring false and the save effect runs
HydrateFailed ==
    /\ hydrate = "loading"
    /\ isRestoring' = FALSE
    /\ stored' = CleanMessages(messages)
    /\ hydrate' = "done"
    /\ UNCHANGED <<libraryVars, appVars, messages, isLoading, requests, now,
                   layoutVars, citationVars, viewerVars>>

\* the selection is changed in the file manager
ChatSelectionChanged == CheckboxChanged(1)

\* a citation control [k:1] of the last reply is clicked; the reply cites
\* documents of its context
ReplyCitationClicked ==
    /\ context.sent
    /\ \E k \in 1..Len(context.docs) :
          /\ OpenCitation(k, 1, <<>>)
          /\ activated' = [done |-> TRUE, docIndex |-> k, page |-> 1]
    /\ UNCHANGED <<libraryVars, chatVars, layoutVars, citationVars,
                   viewerVars>>

ChatNext ==
    \/ SendRequested
    \/ SummarizeRequested
    \/ ChunkArrived
    \/ StreamEnded
    \/ StreamThrew
    \/ Reloaded
    \/ HydrateLoaded
    \/ HydrateFailed
    \/ ChatSelectionChanged
    \/ ReplyCitationClicked

\* a restored session with MaxDocId stored documents, all selected, and no
\* message history
InitChat ==
    /\ LayoutIdle
    /\ CitationIdle
    /\ ViewerIdle
    /\ ChatIdle
    /\ documents = StoredDocs(1..MaxDocId, 1)
    /\ selectedDocIds = 1..MaxDocId
    /\ db = 1..MaxDocId
    /\ handlers = <<>>
    /\ context = NoContext
    /\ nextId = MaxDocId + 1
    /\ dbFault = FALSE
    /\ activeDocument = 1
    /\ citationTarget = NoTarget
    /\ mobileTab = "library"
    /\ error = "none"
    /\ activated = NoActivation

SpecChat == InitChat /\ [][ChatNext]_vars

(***************************************************************************)
(* Citations against the context, streaming flags, the saved history.      *)
(***************************************************************************)
(* C22: the control [k:p] of a reply opens the k-th document of the        *)
(* context that was sent with the query, whatever the selection was.       *)
C22_CitationOpensContextDocument ==
    (activated.done /\ context.sent) =>
        activeDocument = context.docs[activated.docIndex]

(* C26: whenever isLoading is false no message is streaming.               *)
C26_NoStreamingWhenIdle ==
    ~isLoading => \A i \in 1..Len(messages) : ~messages[i].isStreaming

(* C30: no stored message is streaming, and a stored history is never      *)
(* replaced by the empty list.                                             *)
C30_HistoryKept ==
    /\ [](\A i \in 1..Len(stored) : ~stored[i].isStreaming)
    /\ [][stored # <<>> => stored' # <<>>]_vars

=============================================================================
